---- MODULE Spec2Model ----
(***************************************************************************)
(* TouchHear: a printed A4 sheet with four ArUco markers used as a touch   *)
(* surface.  The module models the detector classes of the repository:     *)
(*   - FixedROIDetector  (test/minimal/fixed_roi_detector.py): region      *)
(*     hit-testing with the per-region audio cooldown;                     *)
(*   - AudioManager      (audio_manager.py): cached playback + cooldown;   *)
(*   - A4DepthStreamDetector (depth_detector.py): mask, contact            *)
(*     classification, pixel -> A4 mapping, the frame loop and its reader; *)
(*   - ROIDetector / DepthCalibrationDetector (test/...): plane            *)
(*     calibration and reset_calibration.                                  *)
(* Lengths are integers: pixels on a small frame, millimetres, and tenths  *)
(* of a millimetre for rounded A4 coordinates.  Quotients are kept as      *)
(* numerator/denominator pairs and compared by cross-multiplication.       *)
(***************************************************************************)
EXTENDS Integers, Sequences, FiniteSets, TLC

VARIABLES
    now,              \* time.time(), in ticks of 1/TicksPerSecond s
    audio_log,        \* history: sequence of <<roi id, time>>, one per sound played
    \* ---- FixedROIDetector -------------------------------------------------
    project_data,     \* the loaded project (loaded = FALSE: project_data is None)
    audio_cooldowns,  \* dict roi id -> time of the last trigger
    touched_rois,     \* the list check_roi_touches returned last
    call_time,        \* history: time of the last check_roi_touches call, -1 before it
    \* ---- AudioManager -----------------------------------------------------
    audio_cache,      \* the paths with a loaded pygame Sound
    last_played,      \* dict roi id -> time of the last play
    returned,         \* what the last play_audio call returned ("none" before it)
    \* ---- A4DepthStreamDetector -------------------------------------------
    marker_positions,       \* dict marker id -> pixel centre (detect_aruco_markers)
    depth_data,             \* the depth frame (parameters of DepthAt)
    paper_mask,             \* the mask create_paper_mask made for the frame
    paper_depth_reference,  \* None or the plane depth <<numerator, denominator>>, mm
    calibration_frames,     \* accepted calibration frames, capped at 30
    detection_results,      \* the result dict generate_frames published last
    finger_pos,             \* the pixel handed to the function under test, None before
    contact,                \* what detect_finger_touch_depth returned last
    a4_coord,               \* what pixel_to_a4_coordinate returned last
    \* ---- DepthCalibrationDetector (test/app.py) --------------------------
    plane_depth,        \* None or the plane depth in metres, a binary64 value
    calibration_count,  \* accepted calibration frames
    is_calibrated,      \* calibration_count has reached the threshold
    app_results,        \* the result dict its generate_frames published last
    scene_depth,        \* the depth of the sheet in the scene, raw sensor units (mm)
    constant_scene,     \* history: every frame so far showed four markers at scene_depth
    \* ---- threads of the web application of A4DepthStreamDetector ---------
    loop_pc,         \* per client: where its generate_frames loop stands
    loop_frame,      \* per client: the frame its loop is working on
    read_pc,         \* where the get_detection_results call stands
    read_result,     \* the dict results the call builds
    read_seen,       \* history: the dicts self.detection_results held during the call
    frames_started,  \* history: frames asked from the camera
    reads_started,   \* history: calls of get_detection_results
    \* ---- threads of the web application of DepthCalibrationDetector ------
    frame_pc,        \* where the generate_frames loop stands in its iteration
    frame_locals,    \* the locals of calibrate_simple_plane
    reset_pc,        \* where the reset_calibration call stands
    post_reset,      \* history: how far the run is past the last reset_calibration
    resets_started,  \* history: calls of reset_calibration
    \* ---- the process around a detector: construction, serving, shutdown ----
    detector_class,    \* the class of the detector of the process
    life_pc,           \* where the process stands: import, constructed, serving, exited, startup_error
    pipeline,          \* the Orbbec pipeline: absent, created, started, stopped
    pipeline_starts,   \* history: successful calls of pipeline.start()
    pipeline_stops,    \* history: calls of pipeline.stop()
    camera_available,  \* self.camera_available
    running,           \* self.running
    gen_pc,            \* per client: where its generate_frames generator stands
    stop_calls,        \* history: calls of stop()
    start_calls,       \* history: calls of start()
    \* ---- FileManager (file_manager.py) and its projects folder -------------
    config_files,  \* dict folder name -> the content of its config.json
    store_result,  \* the last call of the FileManager, with what it returned
    uuids_drawn,   \* history: calls of uuid.uuid4()
    claimed_rois,  \* history: per folder, the regions its add/update/delete_roi calls describe
    roi_calls,     \* history: calls of add_roi, update_roi and delete_roi
    \* ---- one region, hit-tested by a detector and printed by the editor's export ---
    region_roi,         \* the region dict
    region_touch,       \* the touch point on the sheet, tenths of a millimetre
    region_detector,    \* the class whose check_roi_touches tests the region
    region_background,  \* None or the pixel size of the background image of the project
    region_hit,         \* None or the rectangle and verdict of the hit test
    region_printed,     \* None or what create_a4_template_with_rois drew for the region
    \* ---- detect_aruco_markers on one frame ---------------------------------
    aruco_ids,     \* ids.flatten() of cv2.aruco.detectMarkers: the id of each detection
    aruco_result,  \* None or what detect_aruco_markers returned
    \* ---- the plane calibrator of ROIDetector and of A4DepthStreamDetector ---
    plane_class,     \* the class whose calibrator runs
    plane_state,     \* plane depth, sample count and is_calibrated of the detector
    plane_return,    \* "no call" or what the last calibrate call returned
    plane_frame,     \* None or the marker depths of the last frame
    plane_progress,  \* calibration_progress of detection_results, <<numerator, denominator>>
    plane_scene,     \* the depth of the sheet in front of the detector, raw sensor units (mm)
    plane_frames,    \* history: the frames the detector was handed
    \* ---- FixedROIDetector.update_frame: the detector and its last frame ----
    fix_state,   \* plane_depth, calibration_count and is_calibrated of the detector
    fix_frame,   \* history: None or the frame update_frame processed last
    fix_status,  \* history: the status drawn for each fingertip of that frame
    fix_frames,  \* history: the frames processed
    \* ---- pixel_to_a4_coordinate of the two stream detectors ----------------
    px_class,      \* the class whose pixel_to_a4_coordinate is called
    px_positions,  \* marker_positions of the call
    px_pixel,      \* None or pixel_pos of the call
    px_result,     \* None, the coordinate returned, or Raised
    \* ---- A4WebStreamDetector.generate_frames: the shadow strategy ----------
    sh_frame,    \* history: None or the frame processed last
    sh_results,  \* detection_results of the webcam detector
    sh_frames,   \* history: the frames processed
    sh_class,    \* the class of the webcam detector of the run
    \* ---- ROICanvas and ROIEditor (test/minimal/roi_editor.py) --------------
    ed_heap,      \* the ROI dicts created so far, by object
    ed_rois,      \* canvas.rois: the objects of the list
    ed_selected,  \* canvas.selected_roi: an object, or 0 for None
    ed_start,     \* canvas.start_pos while drawing, or None
    ed_outcome,   \* history: what the last delete_selected_roi did
    ed_opened,    \* history: open_project has loaded a file
    \* ---- DepthCalibrationDetector.map_rgb_to_depth (test/app.py) -----------
    dm_rgb_shape,    \* (rgb_h, rgb_w) of the colour frames
    dm_depth_shape,  \* depth_image.shape: (depth_h, depth_w)
    dm_marker,       \* the colour pixel of a marker and the depth pixel read for it
    dm_finger        \* the colour pixel of a fingertip and the depth pixel read for it

roiVars == <<project_data, audio_cooldowns, touched_rois, call_time>>

audioVars == <<audio_cache, last_played, returned>>

detVars == <<marker_positions, depth_data, paper_mask, paper_depth_reference, calibration_frames, detection_results, finger_pos, contact, a4_coord>>

appVars == <<plane_depth, calibration_count, is_calibrated, app_results, scene_depth, constant_scene>>

streamVars == <<loop_pc, loop_frame, read_pc, read_result, read_seen, frames_started, reads_started>>

resetVars == <<frame_pc, frame_locals, reset_pc, post_reset, resets_started>>

lifeVars == <<detector_class, life_pc, pipeline, pipeline_starts, pipeline_stops, camera_available, running, gen_pc, stop_calls, start_calls>>

storeVars == <<config_files, store_result, uuids_drawn, claimed_rois, roi_calls>>

regionVars == <<region_roi, region_touch, region_detector, region_background, region_hit, region_printed>>

arucoVars == <<aruco_ids, aruco_result>>

planeVars == <<plane_class, plane_state, plane_return, plane_frame, plane_progress, plane_scene, plane_frames>>

fixVars == <<fix_state, fix_frame, fix_status, fix_frames>>

pixelVars == <<px_class, px_positions, px_pixel, px_result>>

shadowVars == <<sh_frame, sh_results, sh_frames, sh_class>>

editorVars == <<ed_heap, ed_rois, ed_selected, ed_start, ed_outcome, ed_opened>>

mapVars == <<dm_rgb_shape, dm_depth_shape, dm_marker, dm_finger>>

vars == <<now, audio_log, roiVars, audioVars, detVars, appVars, streamVars, resetVars, lifeVars, storeVars, regionVars, arucoVars, planeVars, fixVars, pixelVars, shadowVars, editorVars, mapVars>>

\* The variables of the objects a FixedROIDetector run does not hold.
notRoi == <<audioVars, detVars, appVars, streamVars, resetVars, lifeVars, storeVars, regionVars, arucoVars, planeVars, fixVars, pixelVars, shadowVars, editorVars, mapVars>>

\* The variables of the objects an AudioManager run does not hold.
notAudio == <<roiVars, detVars, appVars, streamVars, resetVars, lifeVars, storeVars, regionVars, arucoVars, planeVars, fixVars, pixelVars, shadowVars, editorVars, mapVars>>

\* The variables of the objects an A4DepthStreamDetector run does not hold.
notStream == <<now, audio_log, roiVars, audioVars, appVars, resetVars, lifeVars, storeVars, regionVars, arucoVars, planeVars, fixVars, pixelVars, shadowVars, editorVars, mapVars>>

\* ... and a single-threaded run of it.
notDet == <<notStream, streamVars>>

\* The variables of the objects a DepthCalibrationDetector run does not hold.
notReset == <<now, audio_log, roiVars, audioVars, detVars, streamVars, lifeVars, storeVars, regionVars, arucoVars, planeVars, fixVars, pixelVars, shadowVars, editorVars, mapVars>>

\* ... and a single-threaded run of it.
notApp == <<notReset, resetVars>>

\* No FixedROIDetector in the run.
RoiUnused ==
    /\ project_data = [loaded |-> FALSE, background |-> <<>>, rois |-> <<>>]
    /\ audio_cooldowns = <<>>
    /\ touched_rois = <<>>
    /\ call_time = -1

\* No AudioManager in the run.
AudioUnused ==
    /\ audio_cache = {}
    /\ last_played = <<>>
    /\ returned = "none"

\* No DepthCalibrationDetector in the run.
AppUnused ==
    /\ plane_depth = <<>>
    /\ calibration_count = 0
    /\ is_calibrated = FALSE
    /\ app_results = <<>>
    /\ scene_depth = 0
    /\ constant_scene = TRUE

\* No web application thread around A4DepthStreamDetector in the run.
StreamUnused ==
    /\ loop_pc = <<>>
    /\ loop_frame = <<>>
    /\ read_pc = "idle"
    /\ read_result = <<>>
    /\ read_seen = {}
    /\ frames_started = 0
    /\ reads_started = 0

\* No web application thread around DepthCalibrationDetector in the run.
ResetUnused ==
    /\ frame_pc = "top"
    /\ frame_locals = <<>>
    /\ reset_pc = "idle"
    /\ post_reset = "no"
    /\ resets_started = 0

\* No A4DepthStreamDetector in the run.
DetUnused ==
    /\ marker_positions = <<>>
    /\ depth_data = <<>>
    /\ paper_mask = <<>>
    /\ paper_depth_reference = <<>>
    /\ calibration_frames = 0
    /\ detection_results = <<>>
    /\ finger_pos = <<>>
    /\ contact = <<>>
    /\ a4_coord = <<>>

\* The run does not follow the process from its start to its exit.
ProcessUnused ==
    /\ life_pc = "import"
    /\ pipeline = "absent"
    /\ pipeline_starts = 0
    /\ pipeline_stops = 0
    /\ camera_available = FALSE
    /\ running = FALSE
    /\ gen_pc = <<>>
    /\ stop_calls = 0
    /\ start_calls = 0

\* No process lifecycle in the run.
LifeUnused ==
    /\ detector_class = "none"
    /\ ProcessUnused

\* No FileManager in the run.
StoreUnused ==
    /\ config_files = <<>>
    /\ store_result = <<>>
    /\ uuids_drawn = 0
    /\ claimed_rois = <<>>
    /\ roi_calls = 0

\* No region under test in the run.
RegionUnused ==
    /\ region_roi = <<>>
    /\ region_touch = <<>>
    /\ region_detector = "none"
    /\ region_background = <<>>
    /\ region_hit = <<>>
    /\ region_printed = <<>>

\* No marker detection under test in the run.
ArucoUnused ==
    /\ aruco_ids = <<>>
    /\ aruco_result = <<>>

\* No plane calibrator under test in the run.
PlaneUnused ==
    /\ plane_class = "none"
    /\ plane_state = <<>>
    /\ plane_return = "no call"
    /\ plane_frame = <<>>
    /\ plane_progress = <<>>
    /\ plane_scene = 0
    /\ plane_frames = 0

\* No FixedROIDetector frame loop in the run.
FixUnused ==
    /\ fix_state = <<>>
    /\ fix_frame = <<>>
    /\ fix_status = <<>>
    /\ fix_frames = 0

\* No pixel_to_a4_coordinate call under test in the run.
PixelUnused ==
    /\ px_class = "none"
    /\ px_positions = <<>>
    /\ px_pixel = <<>>
    /\ px_result = <<>>

\* No webcam frame loop with hands in the run.
ShadowUnused ==
    /\ sh_frame = <<>>
    /\ sh_results = <<>>
    /\ sh_frames = 0
    /\ sh_class = "none"

\* No ROI editor in the run.
EditorUnused ==
    /\ ed_heap = <<>>
    /\ ed_rois = <<>>
    /\ ed_selected = 0
    /\ ed_start = <<>>
    /\ ed_outcome = "none"
    /\ ed_opened = FALSE

\* No colour-to-depth lookup in the run.
DepthMapUnused ==
    /\ dm_rgb_shape = <<>>
    /\ dm_depth_shape = <<>>
    /\ dm_marker = <<>>
    /\ dm_finger = <<>>

\* Python's None for a point, a pair or a list: the empty tuple.
None == <<>>

(***************************************************************************)
(* Bounds of the model.                                                    *)
(***************************************************************************)
GridMax == 4          \* the camera frame is (GridMax+1) x (GridMax+1) pixels
TicksPerSecond == 2   \* resolution of the clock
MaxTime == 3          \* the clock stops after MaxTime ticks
MaxTouches == 2       \* touch points handed to one check_roi_touches call
MaxRoiId == 1         \* the editor assigns the ids 0..MaxRoiId
MaxPlays == 3         \* sounds AudioManager plays in one run

(***************************************************************************)
(* Program constants.                                                      *)
(***************************************************************************)
A4Width == 210
A4Height == 297
EditorCanvasW == 800
EditorCanvasH == 600
RoiCooldownSeconds == 1
RoiMarginMm == 3

AudioCooldownSeconds == 1
MIN_DEPTH == 20
MAX_DEPTH == 2000
TOUCH_DEPTH_THRESHOLD == 30
HOVER_DEPTH_THRESHOLD == 80
CalibRegionSize == 20
AlphaNum == 1
AlphaDen == 10
MaxCalibrationFrames == 30
ClassifyAfterFrames == 10
DetMarginMm == 10
FingerRadius == 15
MinValidSamples == 5

\* clients that request the video stream
MaxClients == 2

\* frames taken from the camera in a run
MaxFrames == 2

\* status requests in a run
MaxReads == 1

\* calls of reset_calibration in a run
MaxResets == 1

\* bits of a binary64 significand
MantissaBits == 53

\* bits of one digit of a multi-digit natural
LimbBits == 14

\* guard bits of a quotient before rounding
DivGuard == MantissaBits + LimbBits + 3

\* np.median(valid_depths) / 1000.0
MmPerMetre == 1000

\* if self.calibration_count >= 10
AppCalibratedAt == 10

\* frames accepted in a run
MaxAppCount == 12

\* scene depths beyond 400 mm
SceneSpan == 7

Abs(n) == IF n < 0 THEN -n ELSE n

RECURSIVE GCD(_, _)
GCD(a, b) == IF b = 0 THEN Abs(a) ELSE GCD(b, a % b)

GCD3(a, b, c) == GCD(GCD(Abs(a), Abs(b)), Abs(c))

DivAll(t, g) == IF g = 0 THEN t ELSE <<t[1] \div g, t[2] \div g, t[3] \div g>>

\* <<a, b, c>> divided by the gcd of its entries (the same homogeneous point).
Reduce3(t) == DivAll(t, GCD3(t[1], t[2], t[3]))

\* Twice the signed area of the triangle a, b, c: det [a 1; b 1; c 1].
Det3(a, b, c) == (b[1] - a[1]) * (c[2] - a[2]) - (c[1] - a[1]) * (b[2] - a[2])

\* Barycentric numerators of p in the triangle a, b, c (they sum to Det3(a,b,c)).
Bary(a, b, c, p) == <<Det3(p, b, c), Det3(a, p, c), Det3(a, b, p)>>

(***************************************************************************)
(* pixel_to_a4_coordinate.  positions is a dict from marker ids to  *)
(* pixel centres; margin is the inset of the reference points.             *)
(***************************************************************************)
MarkerRefs(margin) ==
    [i \in 0..3 |->
        CASE i = 0 -> <<margin, margin>>
          [] i = 1 -> <<A4Width - margin, margin>>
          [] i = 2 -> <<A4Width - margin, A4Height - margin>>
          [] i = 3 -> <<margin, A4Height - margin>>]

\* The keys of the dict that are reference ids, in ascending order.
RECURSIVE SortedIds(_)
SortedIds(S) ==
    IF S = {} THEN <<>>
    ELSE LET m == CHOOSE x \in S : \A y \in S : x <= y
         IN  <<m>> \o SortedIds(S \ {m})

\* sum_i k[i] * dst[i] as a homogeneous point with denominator w.
Combine(k, dst, w) ==
    <<k[1] * dst[1][1] + k[2] * dst[2][1] + k[3] * dst[3][1],
      k[1] * dst[1][2] + k[2] * dst[2][2] + k[3] * dst[3][2],
      w>>

\* cv2.getAffineTransform followed by np.dot(matrix, [x, y, 1]): the affine
\* map through three correspondences, as a homogeneous point <<X, Y, W>>
\* (x = X/W, y = Y/W).  Collinear sources make the 3x3 system singular:
\* cv::solve then leaves the zero matrix, which sends every pixel to (0, 0).
AffineHom(src, dst, p) ==
    IF Det3(src[1], src[2], src[3]) = 0 THEN <<0, 0, 1>>
    ELSE Combine(Bary(src[1], src[2], src[3], p), dst, Det3(src[1], src[2], src[3]))

\* The weights mu_i * Lam_i * b_i of the homography, Lam_i the product of
\* the lambdas other than lambda_i.
HomWeights(lam, mu, b) ==
    <<mu[1] * lam[2] * lam[3] * b[1],
      mu[2] * lam[1] * lam[3] * b[2],
      mu[3] * lam[1] * lam[2] * b[3]>>

WeightedPoint(k, dst) == Combine(k, dst, k[1] + k[2] + k[3])

\* The homography through four correspondences before normalisation:
\* H p = sum_i mu_i * Lam_i * Bary_i(p) * dst_i, with lambda (mu) the
\* coordinates of the fourth source (destination) point in the first three.
PerspectiveRaw(src, dst, p) ==
    WeightedPoint(
        HomWeights(Reduce3(Bary(src[1], src[2], src[3], src[4])),
                   Reduce3(Bary(dst[1], dst[2], dst[3], dst[4])),
                   Bary(src[1], src[2], src[3], p)),
        dst)

\* cv2.getPerspectiveTransform solves the 8x8 system normalised to h33 = 1.
\* The system is singular exactly when the raw homography has h33 = 0 (the
\* pixel origin is sent to infinity, or the correspondences are degenerate).
PerspectiveSingular(src, dst) == PerspectiveRaw(src, dst, <<0, 0>>)[3] = 0

\* cv2.perspectiveTransform of the raw point h: w = 0 is sent to (0, 0).
ApplyW(h) == IF h[3] = 0 THEN <<0, 0, 1>> ELSE h

\* cv2.getPerspectiveTransform + cv2.perspectiveTransform.  A singular system
\* leaves the zero matrix with h33 = 1, which sends every pixel to (0, 0).
PerspectiveHom(src, dst, p) ==
    IF PerspectiveSingular(src, dst) THEN <<0, 0, 1>>
    ELSE ApplyW(PerspectiveRaw(src, dst, p))

PosDen(r) == IF r[3] < 0 THEN <<-r[1], -r[2], -r[3]>> ELSE r

\* A homogeneous point with positive denominator, in lowest terms.
NormHom(h) == PosDen(Reduce3(h))

\* 0 <= n/d <= hi, for d > 0.
InRange(n, d, hi) == 0 <= n /\ n <= hi * d

\* Half-even rounding of the quotient with integer part q and remainder r of
\* a division by d.
HalfEven(q, r, d) ==
    IF 2 * r < d THEN q
    ELSE IF 2 * r > d THEN q + 1
    ELSE IF q % 2 = 0 THEN q ELSE q + 1

\* round(n/d, 1) in tenths, for n >= 0 and d > 0: numpy rounds half to even.
Round1(n, d) == HalfEven((10 * n) \div d, (10 * n) % d, d)

TransformPts(pixel_pos, src, dst, n) ==
    IF n < 3 THEN None
    ELSE IF n = 3 THEN NormHom(AffineHom(src, dst, pixel_pos))
    ELSE NormHom(PerspectiveHom(src, dst, pixel_pos))

TransformIds(pixel_pos, positions, refs, ids) ==
    TransformPts(pixel_pos,
                 [i \in 1..Len(ids) |-> positions[ids[i]]],
                 [i \in 1..Len(ids) |-> refs[ids[i]]],
                 Len(ids))

\* The transformed point <<X, Y, W>> of pixel_pos, W > 0, or None when fewer
\* than three reference markers are in the dict.
TransformPoint(pixel_pos, positions, margin) ==
    TransformIds(pixel_pos, positions, MarkerRefs(margin),
                 SortedIds(DOMAIN positions \cap (0..3)))

\* A4FromHom without the bounds test.
A4NoBoundsTest(h) ==
    IF h = None THEN None
    ELSE <<Round1(Abs(h[1]), h[3]), Round1(Abs(h[2]), h[3])>>

\* The bounds test and the rounding of pixel_to_a4_coordinate on the
\* transformed point h.
A4FromHom(h) ==
    IF h = None THEN None
    ELSE IF InRange(h[1], h[3], A4Width) /\ InRange(h[2], h[3], A4Height)
         THEN <<Round1(h[1], h[3]), Round1(h[2], h[3])>>
         ELSE None

\* pixel_to_a4_coordinate: None, or <<x, y>> in tenths of a millimetre.
PixelToA4(pixel_pos, positions, margin) ==
    A4FromHom(TransformPoint(pixel_pos, positions, margin))

(***************************************************************************)
(* FixedROIDetector: the loaded project and the region hit test.           *)
(***************************************************************************)
\* Audio files present on disk (os.path.exists).
ExistingFiles == {"a.wav", "b.wav"}

Roi(id, x, y, w, h, audio) ==
    [id |-> id, x |-> x, y |-> y, width |-> w, height |-> h, audio_file |-> audio]

\* Projects the editor can save: ROI ids count from 0 in list order.  The
\* background is None or the pixel size <<w, h>> of the background image.
Projects ==
    { [loaded |-> TRUE, background |-> None,
       rois |-> << Roi(0, 100, 100, 200, 150, "a.wav"),
                   Roi(1, 150, 100, 400, 250, "b.wav"),
                   Roi(2, 300, 200, 300, 200, ""),
                   Roi(3, 100, 100, 200, 150, "gone.wav") >>],
      [loaded |-> TRUE, background |-> <<400, 600>>,
       rois |-> << Roi(0, 250, 100, 150, 200, "a.wav"),
                   Roi(1, 250, 300, 100, 100, "b.wav") >>] }

\* calculate_background_scale: the fit of the background image into the
\* editor canvas, aspect ratio kept and centred.  scale is the pair
\* <<numerator, denominator>>.
NoProject == [loaded |-> FALSE, background |-> None, rois |-> <<>>]

NoScaleInfo ==
    [present |-> FALSE, original_size |-> None, scaled_size |-> None,
     offset |-> None, scale |-> None]

\* scale = min(canvas_w / bg_w, canvas_h / bg_h)
FitScale(bg_w, bg_h) ==
    IF EditorCanvasW * bg_h <= EditorCanvasH * bg_w
    THEN <<EditorCanvasW, bg_w>>
    ELSE <<EditorCanvasH, bg_h>>

ScaleInfo(bg, scale, scaled_w, scaled_h) ==
    [present |-> TRUE, original_size |-> bg,
     scaled_size |-> <<scaled_w, scaled_h>>,
     offset |-> <<(EditorCanvasW - scaled_w) \div 2,
                  (EditorCanvasH - scaled_h) \div 2>>,
     scale |-> scale]

ScaleInfoOf(bg, scale) ==
    ScaleInfo(bg, scale, (bg[1] * scale[1]) \div scale[2],
              (bg[2] * scale[1]) \div scale[2])

CalculateBackgroundScale(bg) ==
    IF bg = None THEN NoScaleInfo ELSE ScaleInfoOf(bg, FitScale(bg[1], bg[2]))

\* editor_roi_to_a4_mm: the ROI in millimetres.  Every field is a quotient
\* <<numerator, denominator>> with a positive denominator.
EditorRoiToA4Mm(roi, scale_info) ==
    IF ~scale_info.present
    THEN [x |-> <<roi.x * A4Width, EditorCanvasW>>,
          y |-> <<roi.y * A4Height, EditorCanvasH>>,
          width |-> <<roi.width * A4Width, EditorCanvasW>>,
          height |-> <<roi.height * A4Height, EditorCanvasH>>]
    ELSE [x |-> <<(roi.x - scale_info.offset[1]) * scale_info.scale[2] * A4Width,
                  scale_info.scale[1] * scale_info.original_size[1]>>,
          y |-> <<(roi.y - scale_info.offset[2]) * scale_info.scale[2] * A4Height,
                  scale_info.scale[1] * scale_info.original_size[2]>>,
          width |-> <<roi.width * scale_info.scale[2] * A4Width,
                      scale_info.scale[1] * scale_info.original_size[1]>>,
          height |-> <<roi.height * scale_info.scale[2] * A4Height,
                       scale_info.scale[1] * scale_info.original_size[2]>>]

\* lo <= t/10 <= lo + len, for quotients lo and len over one denominator.
Within(t, lo, len) ==
    /\ lo[1] * 10 <= t * lo[2]
    /\ t * lo[2] <= (lo[1] + len[1]) * 10

InRect(r, a4) == Within(a4[1], r.x, r.width) /\ Within(a4[2], r.y, r.height)

\* The containment test of check_roi_touches; a4 is in tenths of a mm.
RoiHit(roi, scale_info, a4) == InRect(EditorRoiToA4Mm(roi, scale_info), a4)

\* audio_file and os.path.exists(audio_file)
Playable(roi) == roi.audio_file # "" /\ roi.audio_file \in ExistingFiles

CooldownTicks == RoiCooldownSeconds * TicksPerSecond

\* roi_id not in self.audio_cooldowns or
\* current_time - self.audio_cooldowns[roi_id] > 1.0
CooldownElapsed(cooldowns, roi_id, current_time) ==
    \/ roi_id \notin DOMAIN cooldowns
    \/ current_time - cooldowns[roi_id] > CooldownTicks

DictPut(d, k, v) == [x \in DOMAIN d \cup {k} |-> IF x = k THEN v ELSE d[x]]

EmptyDict == [x \in {} |-> 0]

\* RoiStep with the trigger time left unrecorded.
RoiStepNoRecord(st, roi, scale_info, a4, current_time) ==
    IF ~RoiHit(roi, scale_info, a4) THEN st
    ELSE IF Playable(roi) /\ CooldownElapsed(st.cd, roi.id, current_time)
         THEN [touched |-> Append(st.touched, roi),
               cd |-> st.cd,
               log |-> Append(st.log, <<roi.id, current_time>>)]
         ELSE [st EXCEPT !.touched = Append(st.touched, roi)]

\* RoiStep with the region reported only when its audio is played.
RoiStepPlayedOnly(st, roi, scale_info, a4, current_time) ==
    IF ~RoiHit(roi, scale_info, a4) THEN st
    ELSE IF Playable(roi) /\ CooldownElapsed(st.cd, roi.id, current_time)
         THEN [touched |-> Append(st.touched, roi),
               cd |-> DictPut(st.cd, roi.id, current_time),
               log |-> Append(st.log, <<roi.id, current_time>>)]
         ELSE st

\* One iteration of the inner loop: ROI number j against the touch at a4.
RoiStep(st, roi, scale_info, a4, current_time) ==
    IF ~RoiHit(roi, scale_info, a4) THEN st
    ELSE IF Playable(roi) /\ CooldownElapsed(st.cd, roi.id, current_time)
         THEN [touched |-> Append(st.touched, roi),
               cd |-> DictPut(st.cd, roi.id, current_time),
               log |-> Append(st.log, <<roi.id, current_time>>)]
         ELSE [st EXCEPT !.touched = Append(st.touched, roi)]

RECURSIVE RoiLoop(_, _, _, _, _, _)
RoiLoop(st, rois, j, scale_info, a4, current_time) ==
    IF j > Len(rois) THEN st
    ELSE RoiLoop(RoiStep(st, rois[j], scale_info, a4, current_time),
                 rois, j + 1, scale_info, a4, current_time)

\* The inner loop for the touch at a4, skipped when the mapping failed.
TouchStep(st, rois, scale_info, a4, current_time) ==
    IF a4 = None THEN st ELSE RoiLoop(st, rois, 1, scale_info, a4, current_time)

RECURSIVE TouchLoop(_, _, _, _, _, _, _)
TouchLoop(st, touch_points, i, positions, rois, scale_info, current_time) ==
    IF i > Len(touch_points) THEN st
    ELSE TouchLoop(TouchStep(st, rois, scale_info,
                             PixelToA4(touch_points[i], positions, RoiMarginMm),
                             current_time),
                   touch_points, i + 1, positions, rois, scale_info,
                   current_time)

\* check_roi_touches: the touched list, the cooldown dict and the play log after
\* the call.
CheckRoiTouchesResult(touch_points, positions, project, cooldowns, log, current_time) ==
    IF ~project.loaded \/ Cardinality(DOMAIN positions) < 3
    THEN [touched |-> <<>>, cd |-> cooldowns, log |-> log]
    ELSE TouchLoop([touched |-> <<>>, cd |-> cooldowns, log |-> log],
                   touch_points, 1, positions, project.rois,
                   CalculateBackgroundScale(project.background), current_time)

\* Inputs of the hit test.
TouchCandidates == {<<1, 1>>, <<2, 2>>}

TouchLists == UNION {[1..n -> TouchCandidates] : n \in 0..MaxTouches}

RoiMarkerDicts ==
    { (0 :> <<0, 0>>) @@ (1 :> <<GridMax, 0>>) @@ (2 :> <<GridMax, GridMax>>)
          @@ (3 :> <<0, GridMax>>),
      (0 :> <<0, 0>>) @@ (1 :> <<GridMax, 0>>) @@ (2 :> <<GridMax, GridMax>>),
      (0 :> <<0, 0>>) @@ (3 :> <<0, GridMax>>) }

RoiInit ==
    /\ DepthMapUnused
    /\ EditorUnused
    /\ ShadowUnused
    /\ PixelUnused
    /\ FixUnused
    /\ PlaneUnused
    /\ ArucoUnused
    /\ RegionUnused
    /\ StoreUnused
    /\ LifeUnused
    /\ now = 0
    /\ AudioUnused
    /\ DetUnused
    /\ AppUnused
    /\ StreamUnused
    /\ ResetUnused
    /\ project_data \in Projects \cup {NoProject}
    /\ audio_cooldowns = EmptyDict
    /\ audio_log = <<>>
    /\ touched_rois = <<>>
    /\ call_time = -1

\* time.time() advances.
Tick ==
    /\ now < MaxTime
    /\ now' = now + 1
    /\ UNCHANGED <<audio_log, roiVars, notRoi>>

\* FixedROIDetector.check_roi_touches(touch_points, positions)
CheckRoiTouches(touch_points, positions) ==
    \E r \in {CheckRoiTouchesResult(touch_points, positions, project_data,
                                    audio_cooldowns, audio_log, now)} :
        /\ touched_rois' = r.touched
        /\ audio_cooldowns' = r.cd
        /\ audio_log' = r.log
        /\ call_time' = now
        /\ UNCHANGED <<now, project_data, notRoi>>

RoiNext ==
    \/ Tick
    \/ \E tp \in TouchLists, mp \in RoiMarkerDicts : CheckRoiTouches(tp, mp)

SpecRoi == RoiInit /\ [][RoiNext]_vars

(***************************************************************************)
(* AudioManager (audio_manager.py).  Region ids are tagged values:        *)
(* <<"none">> is None, <<"int", n>> the editor's integer ids (len(rois),  *)
(* counted from 0), <<"str", s>> the store's uuid strings.                *)
(***************************************************************************)
NoneId == <<"none">>

IntId(n) == <<"int", n>>

StrId(u) == <<"str", u>>

\* Python's truth value of a region id: None, 0 and "" are false.
Truthy(roi_id) ==
    CASE roi_id[1] = "none" -> FALSE
      [] roi_id[1] = "int" -> roi_id[2] # 0
      [] roi_id[1] = "str" -> roi_id[2] # ""

\* The ids ROICanvas.mouseReleaseEvent assigns (len(self.rois)) and the ids
\* FileManager.add_roi assigns (str(uuid.uuid4())).
EditorIds == {IntId(n) : n \in 0..MaxRoiId}

StoreIds == {StrId("3f2b8c1e-uuid"), StrId("a90d44f7-uuid")}

AssignableIds == EditorIds \cup StoreIds

\* Audio paths: one that loads, one that exists but pygame cannot load, one
\* that does not exist.
LoadableFiles == {"a.wav"}

CorruptFiles == {"bad.wav"}

AudioPaths == LoadableFiles \cup CorruptFiles \cup {"gone.wav"}

AudioCooldownTicks == AudioCooldownSeconds * TicksPerSecond

\* roi_id and roi_id in self.last_played and
\* current_time - self.last_played[roi_id] < self.cooldown_time
InCooldown(played, roi_id, current_time) ==
    /\ Truthy(roi_id)
    /\ roi_id \in DOMAIN played
    /\ current_time - played[roi_id] < AudioCooldownTicks

\* The time recorded for roi_id after a successful play: if roi_id: ...
RecordPlay(played, roi_id, current_time) ==
    IF Truthy(roi_id) THEN DictPut(played, roi_id, current_time) ELSE played

\* load_audio with a pygame that loads every existing file.
LoadAudioAnyFile(cache, audio_path) ==
    IF audio_path \in cache THEN "ok"
    ELSE IF audio_path \in LoadableFiles \cup CorruptFiles THEN "ok"
    ELSE "missing"

\* load_audio: "ok" (in the cache on return), "failed" (pygame.error, returns
\* False) or "missing" (returns True with nothing cached).
LoadAudio(cache, audio_path) ==
    IF audio_path \in cache THEN "ok"
    ELSE IF audio_path \in LoadableFiles THEN "ok"
    ELSE IF audio_path \in CorruptFiles THEN "failed"
    ELSE "missing"

AudioInit ==
    /\ DepthMapUnused
    /\ EditorUnused
    /\ ShadowUnused
    /\ PixelUnused
    /\ FixUnused
    /\ PlaneUnused
    /\ ArucoUnused
    /\ RegionUnused
    /\ StoreUnused
    /\ LifeUnused
    /\ now = 0
    /\ audio_log = <<>>
    /\ audio_cache = {}
    /\ last_played = EmptyDict
    /\ returned = "none"
    /\ RoiUnused
    /\ DetUnused
    /\ AppUnused
    /\ StreamUnused
    /\ ResetUnused

\* AudioManager.play_audio(audio_path, roi_id)
PlayAudio(audio_path, roi_id) ==
    /\ Len(audio_log) < MaxPlays
    /\ IF InCooldown(last_played, roi_id, now)
       THEN /\ returned' = "False"
            /\ UNCHANGED <<audio_cache, last_played, audio_log>>
       ELSE CASE LoadAudio(audio_cache, audio_path) = "ok" ->
                   /\ audio_cache' = audio_cache \cup {audio_path}
                   /\ audio_log' = Append(audio_log, <<roi_id, now>>)
                   /\ last_played' = RecordPlay(last_played, roi_id, now)
                   /\ returned' = "True"
              [] LoadAudio(audio_cache, audio_path) = "failed" ->
                   /\ returned' = "False"
                   /\ UNCHANGED <<audio_cache, last_played, audio_log>>
              [] LoadAudio(audio_cache, audio_path) = "missing" ->
                   \* self.audio_cache[audio_path] raises KeyError
                   /\ returned' = "raised"
                   /\ UNCHANGED <<audio_cache, last_played, audio_log>>
    /\ UNCHANGED <<now, notAudio>>

AudioNext ==
    \/ Tick
    \/ \E p \in AudioPaths, id \in AssignableIds \cup {NoneId} : PlayAudio(p, id)

SpecAudio == AudioInit /\ [][AudioNext]_vars

(***************************************************************************)
(* A4DepthStreamDetector (depth_detector.py): the paper mask and the       *)
(* depth classifier.  The colour and the depth frame are FrameW x FrameH   *)
(* pixels; depths are in mm.                                               *)
(***************************************************************************)
FrameW == GridMax + 1

FrameH == GridMax + 1

FramePixels == (0..(FrameW - 1)) \X (0..(FrameH - 1))

InFrame(p) == 0 <= p[1] /\ p[1] < FrameW /\ 0 <= p[2] /\ p[2] < FrameH

\* get_frames: depths outside (MIN_DEPTH, MAX_DEPTH) are set to 0.
FilterDepth(v) == IF v > MIN_DEPTH /\ v < MAX_DEPTH THEN v ELSE 0

\* The raw depth of pixel p in the frame dm: the paper at dm.paper, a hand
\* at the columns from dm.split on (depth dm.h1 or dm.h2 in a checkerboard),
\* and sensor holes (no reading).
Hole(dm, p) ==
    CASE dm.holes = 0 -> FALSE
      [] dm.holes = 1 -> p[1] % 2 = 1
      [] dm.holes = 2 -> ~(p[2] = 0 /\ p[1] <= 3)

RawDepth(dm, p) ==
    IF Hole(dm, p) THEN 0
    ELSE IF p[1] < dm.split THEN dm.paper
    ELSE IF (p[1] + p[2]) % 2 = 0 THEN dm.h1 ELSE dm.h2

\* depth_data[y, x]
DepthAt(dm, p) == FilterDepth(RawDepth(dm, p))

Sign(n) == IF n > 0 THEN 1 ELSE IF n < 0 THEN -1 ELSE 0

\* p on the closed segment a b.
OnSegment(p, a, b) ==
    /\ Det3(a, b, p) = 0
    /\ (p[1] - a[1]) * (p[1] - b[1]) <= 0
    /\ (p[2] - a[2]) * (p[2] - b[2]) <= 0

SameSide(k, d) == k[1] * d >= 0 /\ k[2] * d >= 0 /\ k[3] * d >= 0

\* p in the closed triangle a b c (not degenerate).
InTriangle(p, a, b, c) ==
    /\ Det3(a, b, c) # 0
    /\ SameSide(Bary(a, b, c, p), Sign(Det3(a, b, c)))

\* p in the convex hull of the points P (cv2.convexHull).
InClosedHull(p, P) ==
    \/ \E a \in P, b \in P : OnSegment(p, a, b)
    \/ \E a \in P, b \in P, c \in P : InTriangle(p, a, b, c)

\* a b is on the boundary of the hull of P: the other points lie on one side.
HullEdge(a, b, P) ==
    /\ a # b
    /\ \/ \A c \in P : Det3(a, b, c) >= 0
       \/ \A c \in P : Det3(a, b, c) <= 0

\* The minor-axis offset of cv::LineIterator (8-connected) after k steps on
\* a line of major extent dmaj and minor extent dmin: k * dmin / dmaj
\* rounded to nearest, a half towards the start.
MinorSteps(k, dmaj, dmin) == (2 * dmin * k + dmaj - 1) \div (2 * dmaj)

\* p is drawn by cv::Line from the left end l to the right end r.
OnRasterLR(p, l, r) ==
    IF Abs(r[2] - l[2]) <= r[1] - l[1]
    THEN /\ l[1] <= p[1] /\ p[1] <= r[1]
         /\ p[2] = l[2] + Sign(r[2] - l[2])
                          * MinorSteps(p[1] - l[1], r[1] - l[1], Abs(r[2] - l[2]))
    ELSE /\ (p[2] - l[2]) * (p[2] - r[2]) <= 0
         /\ p[1] = l[1] + MinorSteps(Abs(p[2] - l[2]), Abs(r[2] - l[2]), r[1] - l[1])

\* cv::Line iterates from left to right.
OnRasterLine(p, a, b) ==
    IF a[1] <= b[1] THEN OnRasterLR(p, a, b) ELSE OnRasterLR(p, b, a)

\* p is on a boundary line fillPoly draws around the hull of P.
OnHullRaster(p, P) ==
    \E a \in P, b \in P : HullEdge(a, b, P) /\ OnRasterLine(p, a, b)

\* The pixel centres of a marker dict.
MarkerPoints(positions) == {positions[i] : i \in DOMAIN positions}

\* create_paper_mask: None with fewer than three markers, else the set of the
\* pixels fillPoly sets to 255: the hull and its rasterised boundary.
NoMask == [present |-> FALSE, pixels |-> {}]

MaskOf(P) ==
    [present |-> TRUE,
     pixels |-> {p \in FramePixels : InClosedHull(p, P) \/ OnHullRaster(p, P)}]

CreatePaperMask(positions) ==
    IF Cardinality(DOMAIN positions) < 3 THEN NoMask
    ELSE MaskOf(MarkerPoints(positions))

\* The pixels of depth_data[y1:y2, x1:x2] around the fingertip.
Window(p) ==
    {q \in FramePixels :
        /\ p[1] - FingerRadius <= q[1] /\ q[1] < p[1] + FingerRadius
        /\ p[2] - FingerRadius <= q[2] /\ q[2] < p[2] + FingerRadius}

\* finger_depth_roi[(finger_depth_roi > 0) & (mask_roi > 0)], as pixels
ValidSamples(dm, mask, p) ==
    {q \in Window(p) \cap mask.pixels : DepthAt(dm, q) > 0}

\* The k-th smallest value of the function f.
KthOf(f, k) ==
    CHOOSE v \in {f[q] : q \in DOMAIN f} :
        /\ Cardinality({q \in DOMAIN f : f[q] < v}) < k
        /\ k <= Cardinality({q \in DOMAIN f : f[q] <= v})

HalfSum(f, n) ==
    IF n % 2 = 1 THEN 2 * KthOf(f, (n + 1) \div 2)
    ELSE KthOf(f, n \div 2) + KthOf(f, n \div 2 + 1)

\* Twice np.median of the values of f: the middle value, or the mean of the
\* two middle values.
DoubleMedian(f) == HalfSum(f, Cardinality(DOMAIN f))

\* Twice np.median of the depths of the pixels S.
Median2(dm, S) == DoubleMedian([q \in S |-> DepthAt(dm, q)])

ContactResult(state, diff, depth) ==
    [contact_state |-> state, depth_difference |-> diff, finger_depth |-> depth]

\* ContactState with the two thresholds exchanged.
ContactStateSwapped(n, d) ==
    IF n < HOVER_DEPTH_THRESHOLD * d THEN "touch"
    ELSE IF n < TOUCH_DEPTH_THRESHOLD * d THEN "hover"
    ELSE "far"

\* The three-way test on depth_difference = n / d, d > 0.
ContactState(n, d) ==
    IF n < TOUCH_DEPTH_THRESHOLD * d THEN "touch"
    ELSE IF n < HOVER_DEPTH_THRESHOLD * d THEN "hover"
    ELSE "far"

\* depth_difference = paper_depth_reference - finger_depth for the plane
\* ref = <<n, d>> and the doubled median m2.
Classify(ref, m2) ==
    ContactResult(ContactState(2 * ref[1] - ref[2] * m2, 2 * ref[2]),
                  <<2 * ref[1] - ref[2] * m2, 2 * ref[2]>>, <<m2, 2>>)

ClassifySamples(dm, ref, S) ==
    IF Cardinality(S) < MinValidSamples
    THEN ContactResult("nodata", <<0, 1>>, <<0, 1>>)
    ELSE Classify(ref, Median2(dm, S))

\* DetectFingerTouchDepth without the test of the mask at the fingertip.
DetectNoMaskTest(dm, ref, p, mask) ==
    IF ~mask.present \/ ref = None THEN ContactResult("unknown", <<0, 1>>, <<0, 1>>)
    ELSE IF ~InFrame(p) THEN ContactResult("unknown", <<0, 1>>, <<0, 1>>)
    ELSE ClassifySamples(dm, ref, ValidSamples(dm, mask, p))

\* detect_finger_touch_depth(depth_data, finger_pos, paper_mask)
DetectFingerTouchDepth(dm, ref, p, mask) ==
    IF ~mask.present \/ ref = None THEN ContactResult("unknown", <<0, 1>>, <<0, 1>>)
    ELSE IF ~InFrame(p) THEN ContactResult("unknown", <<0, 1>>, <<0, 1>>)
    ELSE IF p \notin mask.pixels THEN ContactResult("outside", <<0, 1>>, <<0, 1>>)
    ELSE ClassifySamples(dm, ref, ValidSamples(dm, mask, p))

(***************************************************************************)
(* A4DepthStreamDetector: calibration and one iteration of generate_frames.*)
(* The plane depth is an exact quotient <<numerator, denominator>>.        *)
(***************************************************************************)
\* The pixels of depth_data[y1:y2, x1:x2] around a marker centre.
MarkerRegion(p) ==
    {q \in FramePixels :
        /\ p[1] - CalibRegionSize <= q[1] /\ q[1] < p[1] + CalibRegionSize
        /\ p[2] - CalibRegionSize <= q[2] /\ q[2] < p[2] + CalibRegionSize}

\* roi_depth[roi_depth > 0], as pixels
RegionSamples(dm, p) == {q \in MarkerRegion(p) : DepthAt(dm, q) > 0}

\* The markers that contribute a depth value: inside the frame, with a valid
\* depth around them.
MarkersWithDepth(dm, positions) ==
    {i \in DOMAIN positions :
        InFrame(positions[i]) /\ RegionSamples(dm, positions[i]) # {}}

\* depth_values, each value doubled
DepthValues2(dm, positions) ==
    [i \in MarkersWithDepth(dm, positions) |->
        Median2(dm, RegionSamples(dm, positions[i]))]

\* A quotient in lowest terms.
Reduce2(n, d, g) == IF g = 0 THEN <<n, d>> ELSE <<n \div g, d \div g>>

Quot(n, d) == Reduce2(n, d, GCD(n, d))

\* alpha * cur + (1 - alpha) * ref
Smooth(cur, ref) ==
    Quot(AlphaNum * cur[1] * ref[2] + (AlphaDen - AlphaNum) * ref[1] * cur[2],
         AlphaDen * cur[2] * ref[2])

CalibState(ref, frames) == [ref |-> ref, frames |-> frames]

\* The update of calibrate_paper_depth with the median cur of depth_values.
AcceptFrame(cur, ref, frames) ==
    CalibState(IF ref = None THEN cur ELSE Smooth(cur, ref),
               IF frames + 1 < MaxCalibrationFrames THEN frames + 1
               ELSE MaxCalibrationFrames)

CalibrateValues(values2, ref, frames) ==
    IF Cardinality(DOMAIN values2) >= 2
    THEN AcceptFrame(Quot(DoubleMedian(values2), 4), ref, frames)
    ELSE CalibState(ref, frames)

\* calibrate_paper_depth(depth_data, marker_positions)
CalibratePaperDepth(dm, positions, ref, frames) ==
    IF Cardinality(DOMAIN positions) < 3 THEN CalibState(ref, frames)
    ELSE CalibrateValues(DepthValues2(dm, positions), ref, frames)

\* board_detected = len(detected_markers) >= 3
BoardDetected(positions) == Cardinality(DOMAIN positions) >= 3

FingerData(pos, a4, c) ==
    [position |-> pos, a4_coord |-> a4, depth_diff |-> c.depth_difference,
     finger_depth |-> c.finger_depth, contact_state |-> c.contact_state]

\* if a4_coord: touching_fingers.append(finger_data)
AppendFinger(fingers, pos, a4, c) ==
    IF a4 = None THEN fingers ELSE Append(fingers, FingerData(pos, a4, c))

\* The loop over hand_positions of generate_frames.
RECURSIVE FingerLoop(_, _, _, _, _, _, _)
FingerLoop(fingers, hands, i, dm, ref, positions, mask) ==
    IF i > Len(hands) THEN fingers
    ELSE FingerLoop(AppendFinger(fingers, hands[i],
                                 PixelToA4(hands[i], positions, DetMarginMm),
                                 DetectFingerTouchDepth(dm, ref, hands[i], mask)),
                    hands, i + 1, dm, ref, positions, mask)

TouchingFingers(hands, dm, cal, positions, mask) ==
    IF BoardDetected(positions) /\ hands # <<>> /\ cal.frames > ClassifyAfterFrames
    THEN FingerLoop(<<>>, hands, 1, dm, cal.ref, positions, mask)
    ELSE <<>>

\* touching_fingers if touching_fingers else
\* [{"position": pos, "a4_coord": None} for pos in hand_positions]
PublishedHands(touching, hands) ==
    IF touching # <<>> THEN touching
    ELSE [i \in 1..Len(hands) |-> [position |-> hands[i], a4_coord |-> None]]

\* The dict generate_frames assigns to self.detection_results;
\* calibration_progress is the quotient <<calibration_frames, 30>>.
Results(positions, hands, touching, cal) ==
    [board |-> BoardDetected(positions),
     hands |-> PublishedHands(touching, hands),
     detected_markers |-> SortedIds(DOMAIN positions),
     depth_reference |-> cal.ref,
     calibration_progress |-> <<cal.frames, MaxCalibrationFrames>>]

\* self.detection_results after __init__
InitialResults == [board |-> FALSE, hands |-> <<>>, detected_markers |-> <<>>]

FrameResults(positions, dm, hands, cal, mask) ==
    Results(positions, hands, TouchingFingers(hands, dm, cal, positions, mask), cal)

\* The calibration state after the calibration step of the frame.
FrameCalibration(positions, dm, ref, frames) ==
    IF BoardDetected(positions) THEN CalibratePaperDepth(dm, positions, ref, frames)
    ELSE CalibState(ref, frames)

\* One iteration of the loop of generate_frames on the frame with the markers
\* positions, the depth frame dm and the fingertips hands; mask is
\* create_paper_mask(display_frame, positions).
ProcessFrame(positions, dm, hands, mask) ==
    \E cal \in {FrameCalibration(positions, dm, paper_depth_reference, calibration_frames)} :
        /\ marker_positions' = positions
        /\ depth_data' = dm
        /\ paper_mask' = mask
        /\ paper_depth_reference' = cal.ref
        /\ calibration_frames' = cal.frames
        /\ detection_results' = FrameResults(positions, dm, hands, cal, mask)
        /\ UNCHANGED <<finger_pos, contact, a4_coord, notDet>>

\* Inputs of the classifier.  Marker dicts: the four frame corners, three of
\* them, a slanted quadrilateral, and two markers (no board).
TouchMarkerDicts ==
    { (0 :> <<0, 0>>) @@ (1 :> <<GridMax, 0>>) @@ (2 :> <<GridMax, GridMax>>)
          @@ (3 :> <<0, GridMax>>),
      (0 :> <<0, 0>>) @@ (1 :> <<GridMax, 0>>) @@ (3 :> <<0, GridMax>>),
      (0 :> <<0, 1>>) @@ (1 :> <<GridMax, 0>>) @@ (2 :> <<GridMax, GridMax>>)
          @@ (3 :> <<1, GridMax>>),
      (0 :> <<0, 0>>) @@ (2 :> <<GridMax, GridMax>>) }

PlaneDepths == {None, <<500, 1>>}

\* The depths of the hand pixels of a frame: depth_difference is -5, 29,
\* 29.5, 30, 79, 79.5 and 80 mm for the plane at 500 mm; 15 mm is filtered.
HandDepths ==
    { <<505, 505>>, <<471, 471>>, <<470, 471>>, <<470, 470>>, <<421, 421>>,
      <<420, 421>>, <<420, 420>>, <<15, 15>> }

DepthFrames ==
    { [paper |-> 500, split |-> sp, h1 |-> h[1], h2 |-> h[2], holes |-> ho] :
        sp \in {0, 2}, h \in HandDepths, ho \in 0..2 }

\* int(finger_tip.x * w), int(finger_tip.y * h): MediaPipe landmarks may lie
\* outside the image.
FingerPositions == (-1..FrameW) \X (-1..FrameH)

TouchInit ==
    /\ DepthMapUnused
    /\ EditorUnused
    /\ ShadowUnused
    /\ PixelUnused
    /\ FixUnused
    /\ PlaneUnused
    /\ ArucoUnused
    /\ RegionUnused
    /\ StoreUnused
    /\ LifeUnused
    /\ marker_positions \in TouchMarkerDicts
    /\ depth_data \in DepthFrames
    /\ paper_mask = CreatePaperMask(marker_positions)
    /\ paper_depth_reference \in PlaneDepths
    /\ calibration_frames = (IF paper_depth_reference = None THEN 0 ELSE MaxCalibrationFrames)
    /\ detection_results = InitialResults
    /\ finger_pos = None
    /\ contact = None
    /\ a4_coord = None
    /\ now = 0
    /\ audio_log = <<>>
    /\ RoiUnused
    /\ AudioUnused
    /\ AppUnused
    /\ StreamUnused
    /\ ResetUnused

\* The call detect_finger_touch_depth(depth_data, p, paper_mask) for the
\* fingertip of the frame.
Detect(p) ==
    /\ contact = None
    /\ finger_pos' = p
    /\ contact' = DetectFingerTouchDepth(depth_data, paper_depth_reference, p, paper_mask)
    /\ UNCHANGED <<marker_positions, depth_data, paper_mask, paper_depth_reference,
                   calibration_frames, detection_results, a4_coord, notDet>>

TouchNext == \E p \in FingerPositions : Detect(p)

SpecTouch == TouchInit /\ [][TouchNext]_vars

(***************************************************************************)
(* A4DepthStreamDetector.pixel_to_a4_coordinate, applied to a pixel and    *)
(* inside generate_frames.  The dict is walked in insertion order in the   *)
(* code; the transform through the correspondences does not depend on it.  *)
(***************************************************************************)
\* The pixel centres detect_aruco_markers may report for each marker id;
\* None: the marker is not seen.
MarkerCandidates ==
    [i \in 0..3 |->
        CASE i = 0 -> {None, <<0, 0>>, <<0, 1>>, <<1, 2>>}
          [] i = 1 -> {None, <<GridMax, 0>>, <<1, 0>>, <<3, 2>>}
          [] i = 2 -> {None, <<GridMax, GridMax>>, <<2, 0>>, <<3, 3>>}
          [] i = 3 -> {None, <<0, GridMax>>, <<0, 2>>, <<1, 3>>}]

\* The dict of the markers seen in a choice c of candidates.
DictOf(c) == [i \in {j \in 0..3 : c[j] # None} |-> c[i]]

MapMarkerDicts ==
    {DictOf(c) : c \in {f \in [0..3 -> UNION {MarkerCandidates[i] : i \in 0..3}] :
                          \A i \in 0..3 : f[i] \in MarkerCandidates[i]}}

\* The calibration states of the frame: not started, about to pass the
\* classification gate, complete.
MapCalibrations ==
    { CalibState(None, 0), CalibState(<<500, 1>>, ClassifyAfterFrames),
      CalibState(<<500, 1>>, MaxCalibrationFrames) }

\* The depth frame: the paper at 500 mm, a hand 30 mm above it from column 2 on.
MapDepthFrame == [paper |-> 500, split |-> 2, h1 |-> 470, h2 |-> 470, holes |-> 0]

\* hand_positions of a frame.
HandCandidates == {<<1, 1>>, <<3, 2>>, <<-1, 2>>}

HandLists == UNION {[1..n -> HandCandidates] : n \in 0..MaxTouches}

MapInit ==
    /\ DepthMapUnused
    /\ EditorUnused
    /\ ShadowUnused
    /\ PixelUnused
    /\ FixUnused
    /\ PlaneUnused
    /\ ArucoUnused
    /\ RegionUnused
    /\ StoreUnused
    /\ LifeUnused
    /\ marker_positions \in MapMarkerDicts
    /\ depth_data = MapDepthFrame
    /\ paper_mask = CreatePaperMask(marker_positions)
    /\ \E cal \in MapCalibrations :
         /\ paper_depth_reference = cal.ref
         /\ calibration_frames = cal.frames
    /\ detection_results = InitialResults
    /\ finger_pos = None
    /\ contact = None
    /\ a4_coord = None
    /\ now = 0
    /\ audio_log = <<>>
    /\ RoiUnused
    /\ AudioUnused
    /\ AppUnused
    /\ StreamUnused
    /\ ResetUnused

\* The call pixel_to_a4_coordinate(p, marker_positions).
MapPixel(p) ==
    /\ finger_pos = None
    /\ detection_results = InitialResults
    /\ finger_pos' = p
    /\ a4_coord' = PixelToA4(p, marker_positions, DetMarginMm)
    /\ UNCHANGED <<marker_positions, depth_data, paper_mask, paper_depth_reference,
                   calibration_frames, detection_results, contact, notDet>>

\* The iteration of generate_frames on the frame, with the fingertips hands
\* (paper_mask is the mask of the markers of the frame).
GenerateFrames(hands) ==
    /\ finger_pos = None
    /\ detection_results = InitialResults
    /\ ProcessFrame(marker_positions, depth_data, hands, paper_mask)

MapNext ==
    \/ \E p \in FingerPositions : MapPixel(p)
    \/ \E hands \in HandLists : GenerateFrames(hands)

SpecMap == MapInit /\ [][MapNext]_vars

(***************************************************************************)
(* The web application around A4DepthStreamDetector.  Every request of the *)
(* video stream runs generate_frames in a thread of its own, and a status  *)
(* request runs get_detection_results in another; a thread can be          *)
(* suspended between any two statements.  An iteration of the loop is      *)
(* split at its writes of the detector: the calibration (lines 402-403)    *)
(* and the assignment of self.detection_results (lines 464-470).  The      *)
(* reader is split at its reads of self.detection_results.                 *)
(***************************************************************************)
Clients == 1..MaxClients

\* The four markers at the corners of the frame.
FourCorners ==
    (0 :> <<0, 0>>) @@ (1 :> <<GridMax, 0>>) @@ (2 :> <<GridMax, GridMax>>)
        @@ (3 :> <<0, GridMax>>)

\* marker_positions of a frame: four markers, three markers, none.
StreamMarkerDicts ==
    { FourCorners,
      (0 :> <<0, 0>>) @@ (1 :> <<GridMax, 0>>) @@ (3 :> <<0, GridMax>>),
      <<>> }

\* hand_positions of a frame.
StreamHandLists == {<<>>, <<<<1, 1>>>>}

StreamFrames == [positions : StreamMarkerDicts, hands : StreamHandLists]

\* The detector when the first request arrives: as constructed, or after a
\* stream that showed the four markers for ClassifyAfterFrames frames.
StreamStarts ==
    { [cal |-> CalibState(None, 0), results |-> InitialResults],
      [cal |-> CalibState(<<500, 1>>, ClassifyAfterFrames),
       results |-> Results(FourCorners, <<>>, <<>>,
                           CalibState(<<500, 1>>, ClassifyAfterFrames))] }

\* The detector the application serves: A4DepthStreamDetector, or the
\* webcam detector A4WebStreamDetector of test/minimal/detector.py, which
\* has the same get_video_stream and no calibration.
StreamClasses == {"A4DepthStreamDetector", "A4WebStreamDetector"}

\* A4WebStreamDetector starts as constructed.
StreamStartsOf(class) ==
    IF class = "A4DepthStreamDetector" THEN StreamStarts
    ELSE {[cal |-> CalibState(None, 0), results |-> InitialResults]}

\* dict.get(key, default)
Get(d, key, default) == IF key \in DOMAIN d THEN d[key] ELSE default

\* hand_data of get_detection_results for a dict hand
HandData(hand) ==
    [position |-> Get(hand, "position", None),
     a4_coord |-> Get(hand, "a4_coord", None),
     finger_depth |-> Get(hand, "finger_depth", <<0, 1>>),
     depth_diff |-> Get(hand, "depth_diff", <<0, 1>>),
     contact_state |-> Get(hand, "contact_state", "unknown"),
     is_touching |-> Get(hand, "contact_state", "unknown") = "touch"]

\* results["hands"] built from the list hands
HandsData(hands) == [i \in 1..Len(hands) |-> HandData(hands[i])]

\* results before the first read: the dict literal is filled key by key
EmptyRead ==
    [board |-> FALSE, hands |-> <<>>, detected_markers |-> <<>>,
     depth_reference |-> None, calibration_progress |-> <<0, MaxCalibrationFrames>>]

\* What get_detection_results returns when every read sees the dict d.
ReaderView(d) ==
    [board |-> Get(d, "board", FALSE),
     hands |-> HandsData(Get(d, "hands", <<>>)),
     detected_markers |-> Get(d, "detected_markers", <<>>),
     depth_reference |-> Get(d, "depth_reference", None),
     calibration_progress |-> Get(d, "calibration_progress", <<0, MaxCalibrationFrames>>)]

StreamInit ==
    /\ DepthMapUnused
    /\ EditorUnused
    /\ ShadowUnused
    /\ PixelUnused
    /\ FixUnused
    /\ PlaneUnused
    /\ ArucoUnused
    /\ RegionUnused
    /\ StoreUnused
    /\ detector_class \in StreamClasses
    /\ ProcessUnused
    /\ marker_positions = <<>>
    /\ depth_data = MapDepthFrame
    /\ paper_mask = NoMask
    /\ \E start \in StreamStartsOf(detector_class) :
         /\ paper_depth_reference = start.cal.ref
         /\ calibration_frames = start.cal.frames
         /\ detection_results = start.results
    /\ finger_pos = None
    /\ contact = None
    /\ a4_coord = None
    /\ loop_pc = [c \in Clients |-> "none"]
    /\ loop_frame = [c \in Clients |-> None]
    /\ read_pc = "idle"
    /\ read_result = EmptyRead
    /\ read_seen = {}
    /\ frames_started = 0
    /\ reads_started = 0
    /\ now = 0
    /\ audio_log = <<>>
    /\ RoiUnused
    /\ AudioUnused
    /\ AppUnused
    /\ ResetUnused

\* Where the loop stands after an acquisition without a frame: continue in
\* A4DepthStreamDetector (depth_detector.py 393-394), break in
\* A4WebStreamDetector (detector.py 195-196).
AfterNoFrame(class) == IF class = "A4DepthStreamDetector" THEN "top" ELSE "ended"

\* The frames of the webcam in these runs show no hand.
WebFrames == [positions : StreamMarkerDicts, hands : {<<>>}]

\* self.detection_results of A4WebStreamDetector for a frame without a
\* touching finger: the hands are the fingertip positions.
WebResults(positions, hands) ==
    [board |-> BoardDetected(positions), hands |-> hands,
     detected_markers |-> SortedIds(DOMAIN positions)]

\* A client requests the stream: get_video_stream starts a generate_frames.
GetVideoStream(c) ==
    /\ loop_pc[c] = "none"
    /\ loop_pc' = [loop_pc EXCEPT ![c] = "top"]
    /\ UNCHANGED <<detVars, loop_frame, read_pc, read_result, read_seen,
                   frames_started, reads_started, notStream>>

\* The client went away: its generator is closed at the yield.
CloseStream(c) ==
    /\ loop_pc[c] = "top"
    /\ loop_pc' = [loop_pc EXCEPT ![c] = "none"]
    /\ UNCHANGED <<detVars, loop_frame, read_pc, read_result, read_seen,
                   frames_started, reads_started, notStream>>

\* Lines 392-403 of the loop of client c: the frame is read and the
\* calibration updated.
LoopCalibrate(c, frame) ==
    /\ detector_class = "A4DepthStreamDetector"
    /\ loop_pc[c] = "top"
    /\ frames_started < MaxFrames
    /\ \E cal \in {FrameCalibration(frame.positions, depth_data, paper_depth_reference, calibration_frames)} :
         /\ paper_depth_reference' = cal.ref
         /\ calibration_frames' = cal.frames
    /\ loop_pc' = [loop_pc EXCEPT ![c] = "frame"]
    /\ loop_frame' = [loop_frame EXCEPT ![c] = frame]
    /\ frames_started' = frames_started + 1
    /\ UNCHANGED <<marker_positions, depth_data, paper_mask, detection_results,
                   finger_pos, contact, a4_coord, read_pc, read_result, read_seen,
                   reads_started, notStream>>

\* Lines 406-477 of the loop of client c: the fingers are classified against
\* the calibration the detector holds now, and the result is published.
LoopPublish(c) ==
    /\ loop_pc[c] = "frame"
    /\ \E mask \in {CreatePaperMask(loop_frame[c].positions)} :
         /\ paper_mask' = mask
         /\ detection_results' =
               FrameResults(loop_frame[c].positions, depth_data, loop_frame[c].hands,
                            CalibState(paper_depth_reference, calibration_frames), mask)
    /\ marker_positions' = loop_frame[c].positions
    /\ read_seen' = IF read_pc = "idle" THEN read_seen
                    ELSE read_seen \cup {detection_results'}
    /\ loop_pc' = [loop_pc EXCEPT ![c] = "top"]
    /\ loop_frame' = [loop_frame EXCEPT ![c] = None]
    /\ UNCHANGED <<depth_data, paper_depth_reference, calibration_frames, finger_pos,
                   contact, a4_coord, read_pc, read_result, frames_started,
                   reads_started, notStream>>

\* Lines 392-394 of the loop of client c: get_frames returns None, None, None
\* (wait_for_frames timed out or raised, no colour frame, no depth frame, a
\* depth format other than Y16) and the loop continues with the next frame.
LoopSkip(c) ==
    /\ detector_class = "A4DepthStreamDetector"
    /\ loop_pc[c] = "top"
    /\ frames_started < MaxFrames
    /\ frames_started' = frames_started + 1
    /\ loop_pc' = [loop_pc EXCEPT ![c] = AfterNoFrame(detector_class)]
    /\ UNCHANGED <<detVars, loop_frame, read_pc, read_result, read_seen,
                   reads_started, notStream>>

\* detector.py 194-203 of the loop of client c of A4WebStreamDetector:
\* self.cap.read() delivers a frame and the markers are detected.
WebLoopRead(c, frame) ==
    /\ detector_class = "A4WebStreamDetector"
    /\ loop_pc[c] = "top"
    /\ frames_started < MaxFrames
    /\ frames_started' = frames_started + 1
    /\ loop_pc' = [loop_pc EXCEPT ![c] = "frame"]
    /\ loop_frame' = [loop_frame EXCEPT ![c] = frame]
    /\ UNCHANGED <<detVars, read_pc, read_result, read_seen, reads_started, notStream>>

\* detector.py 206-249: the result of the frame is published and the frame
\* yielded.
WebLoopPublish(c) ==
    /\ detector_class = "A4WebStreamDetector"
    /\ loop_pc[c] = "frame"
    /\ detection_results' = WebResults(loop_frame[c].positions, loop_frame[c].hands)
    /\ loop_pc' = [loop_pc EXCEPT ![c] = "top"]
    /\ loop_frame' = [loop_frame EXCEPT ![c] = None]
    /\ UNCHANGED <<marker_positions, depth_data, paper_mask, paper_depth_reference,
                   calibration_frames, finger_pos, contact, a4_coord, read_pc,
                   read_result, read_seen, frames_started, reads_started, notStream>>

\* detector.py 194-196: self.cap.read() returns ret = False and the loop is
\* left.
WebLoopNoFrame(c) ==
    /\ detector_class = "A4WebStreamDetector"
    /\ loop_pc[c] = "top"
    /\ frames_started < MaxFrames
    /\ frames_started' = frames_started + 1
    /\ loop_pc' = [loop_pc EXCEPT ![c] = AfterNoFrame(detector_class)]
    /\ UNCHANGED <<detVars, loop_frame, read_pc, read_result, read_seen,
                   reads_started, notStream>>

\* A status request calls get_detection_results.
BeginRead ==
    /\ detector_class = "A4DepthStreamDetector"
    /\ read_pc = "idle"
    /\ reads_started < MaxReads
    /\ read_pc' = "board"
    /\ read_result' = EmptyRead
    /\ read_seen' = {detection_results}
    /\ reads_started' = reads_started + 1
    /\ UNCHANGED <<detVars, loop_pc, loop_frame, frames_started, notStream>>

\* The read of self.detection_results for the key the call stands at.
ReadStep(at, value, next) ==
    /\ read_pc = at
    /\ read_result' = [read_result EXCEPT ![at] = value]
    /\ read_pc' = next
    /\ UNCHANGED <<detVars, loop_pc, loop_frame, read_seen, frames_started,
                   reads_started, notStream>>

\* line 488
ReadBoard == ReadStep("board", Get(detection_results, "board", FALSE), "detected_markers")

\* line 490
ReadMarkers ==
    ReadStep("detected_markers", Get(detection_results, "detected_markers", <<>>),
             "depth_reference")

\* line 491
ReadReference ==
    ReadStep("depth_reference", Get(detection_results, "depth_reference", None),
             "calibration_progress")

\* line 492
ReadProgress ==
    ReadStep("calibration_progress",
             Get(detection_results, "calibration_progress", <<0, MaxCalibrationFrames>>),
             "hands")

\* lines 496-517: the list is read once, walked, and results returned
ReadHands == ReadStep("hands", HandsData(Get(detection_results, "hands", <<>>)), "idle")

StreamNext ==
    \/ \E c \in Clients : GetVideoStream(c)
    \/ \E c \in Clients : CloseStream(c)
    \/ \E c \in Clients, frame \in StreamFrames : LoopCalibrate(c, frame)
    \/ \E c \in Clients : LoopPublish(c)
    \/ \E c \in Clients : LoopSkip(c)
    \/ \E c \in Clients, frame \in WebFrames : WebLoopRead(c, frame)
    \/ \E c \in Clients : WebLoopPublish(c)
    \/ \E c \in Clients : WebLoopNoFrame(c)
    \/ BeginRead
    \/ ReadBoard
    \/ ReadMarkers
    \/ ReadReference
    \/ ReadProgress
    \/ ReadHands

SpecStream == StreamInit /\ [][StreamNext]_vars

(***************************************************************************)
(* Binary64 arithmetic.  DepthCalibrationDetector keeps the plane depth as *)
(* a Python float; its smoothing is computed here as IEEE 754 does it:     *)
(* the exact result of each operation, rounded to MantissaBits significant *)
(* bits, ties to even.  A natural number beyond the native width is a      *)
(* sequence of digits in base LimbBase, least significant first, without a *)
(* leading zero digit; <<>> is 0.  A float is m * 2^e with the mantissa m  *)
(* of exactly MantissaBits bits (or m = <<>> for 0.0).                      *)
(***************************************************************************)
LimbBase == 2 ^ LimbBits

\* The element of a one-element set.  An operator below that uses an
\* argument more than once takes it through a one-element set, so that the
\* argument is evaluated once.
The(S) == CHOOSE r \in S : TRUE

RECURSIVE Strip(_)
Strip(a) ==
    IF a = <<>> THEN a
    ELSE IF a[Len(a)] = 0 THEN Strip(SubSeq(a, 1, Len(a) - 1)) ELSE a

Digit(a, i) == IF i >= 1 /\ i <= Len(a) THEN a[i] ELSE 0

RECURSIVE BigOfNat(_)
BigOfNat(n) == IF n = 0 THEN <<>> ELSE <<n % LimbBase>> \o BigOfNat(n \div LimbBase)

RECURSIVE AddFrom(_, _, _, _, _)
AddFrom(a, b, i, carry, acc) ==
    IF i > Len(a) /\ i > Len(b)
    THEN (IF carry = 0 THEN acc ELSE Append(acc, carry))
    ELSE AddFrom(a, b, i + 1, (Digit(a, i) + Digit(b, i) + carry) \div LimbBase,
                 Append(acc, (Digit(a, i) + Digit(b, i) + carry) % LimbBase))

BigAdd(a, b) == The({AddFrom(x, y, 1, 0, <<>>) : x \in {a}, y \in {b}})

\* a - b for a >= b
RECURSIVE SubFrom(_, _, _, _, _)
SubFrom(a, b, i, borrow, acc) ==
    IF i > Len(a) THEN acc
    ELSE IF Digit(a, i) - Digit(b, i) - borrow < 0
         THEN SubFrom(a, b, i + 1, 1, Append(acc, Digit(a, i) - Digit(b, i) - borrow + LimbBase))
         ELSE SubFrom(a, b, i + 1, 0, Append(acc, Digit(a, i) - Digit(b, i) - borrow))

BigSub(a, b) == The({Strip(SubFrom(x, y, 1, 0, <<>>)) : x \in {a}, y \in {b}})

\* a <= b, comparing from the digit i down
RECURSIVE LeqFrom(_, _, _)
LeqFrom(a, b, i) ==
    IF i = 0 THEN TRUE
    ELSE IF a[i] # b[i] THEN a[i] < b[i] ELSE LeqFrom(a, b, i - 1)

BigLeq(a, b) ==
    \E x \in {a}, y \in {b} :
        IF Len(x) # Len(y) THEN Len(x) < Len(y) ELSE LeqFrom(x, y, Len(x))

\* a * d for a digit-sized d
RECURSIVE MulSmallFrom(_, _, _, _, _)
MulSmallFrom(a, d, i, carry, acc) ==
    IF i > Len(a) THEN (IF carry = 0 THEN acc ELSE Append(acc, carry))
    ELSE MulSmallFrom(a, d, i + 1, (a[i] * d + carry) \div LimbBase,
                      Append(acc, (a[i] * d + carry) % LimbBase))

BigMulSmall(a, d) ==
    The({IF f = 0 THEN <<>> ELSE MulSmallFrom(x, f, 1, 0, <<>>) : x \in {a}, f \in {d}})

\* a * LimbBase^k
ShiftDigits(a, k) == The({IF x = <<>> THEN x ELSE [i \in 1..k |-> 0] \o x : x \in {a}})

RECURSIVE MulFrom(_, _, _, _)
MulFrom(a, b, j, acc) ==
    IF j > Len(b) THEN acc
    ELSE MulFrom(a, b, j + 1, BigAdd(acc, ShiftDigits(BigMulSmall(a, b[j]), j - 1)))

BigMul(a, b) == The({MulFrom(x, y, 1, <<>>) : x \in {a}, y \in {b}})

\* <<a div d, a mod d>> for a digit-sized d, from the digit i down
RECURSIVE DivSmallFrom(_, _, _, _, _)
DivSmallFrom(a, d, i, rem, acc) ==
    IF i = 0 THEN <<Strip(acc), rem>>
    ELSE DivSmallFrom(a, d, i - 1, (rem * LimbBase + a[i]) % d,
                      <<(rem * LimbBase + a[i]) \div d>> \o acc)

BigDivSmall(a, d) == The({DivSmallFrom(x, f, Len(x), 0, <<>>) : x \in {a}, f \in {d}})

\* a * 2^k
ShiftLeft(a, k) ==
    The({ShiftDigits(BigMulSmall(a, 2 ^ (j % LimbBits)), j \div LimbBits) : j \in {k}})

\* a div 2^k
ShiftRight(a, k) ==
    The({IF j \div LimbBits >= Len(x) THEN <<>>
         ELSE BigDivSmall(SubSeq(x, j \div LimbBits + 1, Len(x)), 2 ^ (j % LimbBits))[1] :
         x \in {a}, j \in {k}})

\* bit k of a, bit 0 the least significant
Bit(a, k) ==
    The({(Digit(a, j \div LimbBits + 1) \div (2 ^ (j % LimbBits))) % 2 : j \in {k}})

\* the k low bits of a are 0
LowBitsZero(a, k) == \E x \in {a}, j \in {k} : ShiftLeft(ShiftRight(x, j), j) = x

RECURSIVE NatBitLen(_)
NatBitLen(n) == IF n = 0 THEN 0 ELSE 1 + NatBitLen(n \div 2)

BitLen(a) ==
    The({IF x = <<>> THEN 0 ELSE (Len(x) - 1) * LimbBits + NatBitLen(x[Len(x)]) : x \in {a}})

Float(m, e) == [m |-> m, e |-> e]

\* n div 2^s rounded to nearest, ties to even (s >= 1)
RoundShift(n, s) ==
    The({IF Bit(x, j - 1) = 1 /\ (~LowBitsZero(x, j - 1) \/ Bit(x, j) = 1)
         THEN BigAdd(ShiftRight(x, j), <<1>>)
         ELSE ShiftRight(x, j) : x \in {n}, j \in {s}})

\* the rounded mantissa may have carried into one more bit
Renorm(m, e) ==
    The({IF BitLen(x) > MantissaBits THEN Float(ShiftRight(x, 1), e + 1) ELSE Float(x, e) :
         x \in {m}})

\* the float nearest to n * 2^e; len is the bit length of n
RoundBits(n, e, len) ==
    IF len = 0 THEN Float(<<>>, 0)
    ELSE IF len <= MantissaBits
         THEN Float(ShiftLeft(n, MantissaBits - len), e - (MantissaBits - len))
         ELSE Renorm(RoundShift(n, len - MantissaBits), e + (len - MantissaBits))

RoundToFloat(n, e) == The({RoundBits(x, f, BitLen(x)) : x \in {n}, f \in {e}})

Min2(a, b) == IF a <= b THEN a ELSE b

\* the natural x.m * 2^(x.e - e) for e <= x.e
Aligned(x, e) == ShiftLeft(x.m, x.e - e)

FMul(x, y) == The({RoundToFloat(BigMul(a.m, b.m), a.e + b.e) : a \in {x}, b \in {y}})

FAdd(x, y) ==
    The({RoundToFloat(BigAdd(Aligned(a, Min2(a.e, b.e)), Aligned(b, Min2(a.e, b.e))),
                      Min2(a.e, b.e)) : a \in {x}, b \in {y}})

\* x - y for x >= y >= 0
FSub(x, y) ==
    The({RoundToFloat(BigSub(Aligned(a, Min2(a.e, b.e)), Aligned(b, Min2(a.e, b.e))),
                      Min2(a.e, b.e)) : a \in {x}, b \in {y}})

\* x / 2
FHalf(x) == The({IF a.m = <<>> THEN a ELSE Float(a.m, a.e - 1) : a \in {x}})

\* float(n) for a natural n of native width
FromNat(n) == RoundToFloat(BigOfNat(n), 0)

\* the quotient of n * 2^DivGuard by d with a sticky bit for the remainder
StickyQuotient(qr) ==
    The({BigAdd(ShiftLeft(p[1], 1), IF p[2] = 0 THEN <<>> ELSE <<1>>) : p \in {qr}})

\* float(n) / float(d) for naturals n and 0 < d < LimbBase: the decimal
\* literal n/d as well
FDivNat(n, d) ==
    RoundToFloat(StickyQuotient(BigDivSmall(ShiftLeft(BigOfNat(n), DivGuard), d)),
                 0 - DivGuard - 1)

\* |x - y| <= z * 2^(-k), all three >= 0
FWithin(x, y, z, k) ==
    \E a \in {x}, b \in {y}, c \in {z} :
      \E e \in {Min2(Min2(a.e, b.e), c.e - k)} :
        \E p \in {Aligned(a, e)}, q \in {Aligned(b, e)}, t \in {ShiftLeft(c.m, c.e - k - e)} :
            \/ BigLeq(q, p) /\ BigLeq(BigSub(p, q), t)
            \/ BigLeq(p, q) /\ BigLeq(BigSub(q, p), t)

(***************************************************************************)
(* DepthCalibrationDetector (test/app.py): calibrate_simple_plane and one  *)
(* iteration of generate_frames.  A frame is the dict marker id -> raw     *)
(* depth around the marker (0: no valid depth there); the frames carry no  *)
(* hand.                                                                   *)
(***************************************************************************)
\* get_depth_at_point on a region of raw depth raw: np.median(...) / 1000.0
GetDepthAtPoint(raw) == IF raw > 0 THEN FDivNat(raw, MmPerMetre) ELSE None

\* The markers whose depth is appended to depths.
MarkersInDepths(frame) == {i \in DOMAIN frame : frame[i] > 0}

\* sorted(depths), as raw values: the conversion to metres keeps the order
RECURSIVE SortedRaws(_, _)
SortedRaws(frame, S) ==
    IF S = {} THEN <<>>
    ELSE LET i == CHOOSE j \in S : \A k \in S : frame[j] <= frame[k]
         IN  <<frame[i]>> \o SortedRaws(frame, S \ {i})

\* np.median of the sorted list raws of at least one depth
MedianOfDepths(raws) ==
    The({IF Len(r) % 2 = 1 THEN GetDepthAtPoint(r[(Len(r) + 1) \div 2])
         ELSE FHalf(FAdd(GetDepthAtPoint(r[Len(r) \div 2]),
                         GetDepthAtPoint(r[Len(r) \div 2 + 1]))) : r \in {raws}})

\* alpha = 0.2
AppAlpha == FDivNat(2, 10)

\* alpha * current_plane_depth + (1 - alpha) * self.plane_depth
SmoothPlaneNoComplement(cur, plane) == FAdd(FMul(AppAlpha, cur), FMul(AppAlpha, plane))

SmoothPlane(cur, plane) ==
    FAdd(FMul(AppAlpha, cur), FMul(FSub(FromNat(1), AppAlpha), plane))

AppCalibration(plane, count, calibrated, accepted) ==
    [plane |-> plane, count |-> count, calibrated |-> calibrated, accepted |-> accepted]

\* The update of calibrate_simple_plane with the median cur of depths.
AcceptPlane(cur, plane, count, calibrated) ==
    AppCalibration(IF plane = None THEN cur ELSE SmoothPlane(cur, plane),
                   count + 1,
                   calibrated \/ count + 1 >= AppCalibratedAt,
                   TRUE)

\* calibrate_simple_plane(marker_positions, depth_image, ...)
CalibrateSimplePlane(frame, plane, count, calibrated) ==
    IF Cardinality(DOMAIN frame) >= 3 /\ Cardinality(MarkersInDepths(frame)) >= 3
    THEN AcceptPlane(MedianOfDepths(SortedRaws(frame, MarkersInDepths(frame))),
                     plane, count, calibrated)
    ELSE AppCalibration(plane, count, calibrated, FALSE)

\* detect_aruco_markers: if marker_positions: self.calibrate_simple_plane(...)
AppFrameCalibration(frame, plane, count, calibrated) ==
    IF DOMAIN frame # {} THEN CalibrateSimplePlane(frame, plane, count, calibrated)
    ELSE AppCalibration(plane, count, calibrated, FALSE)

\* float(self.plane_depth * 1000) if self.plane_depth else 0
PlaneDepthMm(plane) ==
    IF plane = None THEN Float(<<>>, 0)
    ELSE IF plane.m = <<>> THEN Float(<<>>, 0) ELSE FMul(plane, FromNat(MmPerMetre))

\* The dict generate_frames assigns to self.detection_results.
AppResults(cal, frame) ==
    [calibrated |-> cal.calibrated,
     plane_depth |-> PlaneDepthMm(cal.plane),
     calibration_progress |-> cal.count,
     finger_positions |-> <<>>,
     marker_count |-> Cardinality(DOMAIN frame)]

\* self.detection_results after __init__
AppInitialResults ==
    [calibrated |-> FALSE, plane_depth |-> Float(<<>>, 0), calibration_progress |-> 0,
     finger_positions |-> <<>>, marker_count |-> 0]

\* The depths of the sheet in the scenes, raw sensor units.
SceneDepths == {1000} \cup (400 .. 400 + SceneSpan)

\* The frame with the four markers at the depth raw.
FourMarkers(raw) == [i \in 0..3 |-> raw]

\* The frames of a scene: the four markers at the depth of the sheet; three
\* markers; four markers, two of them without a valid depth; two markers;
\* no marker.
AppFrames(raw) ==
    { FourMarkers(raw),
      [i \in 0..2 |-> raw],
      [i \in 0..3 |-> IF i < 2 THEN raw ELSE 0],
      [i \in 0..1 |-> raw],
      [i \in {} |-> raw] }

CalibInit ==
    /\ DepthMapUnused
    /\ EditorUnused
    /\ ShadowUnused
    /\ PixelUnused
    /\ FixUnused
    /\ PlaneUnused
    /\ ArucoUnused
    /\ RegionUnused
    /\ StoreUnused
    /\ LifeUnused
    /\ plane_depth = None
    /\ calibration_count = 0
    /\ is_calibrated = FALSE
    /\ app_results = AppInitialResults
    /\ scene_depth \in SceneDepths
    /\ constant_scene = TRUE
    /\ now = 0
    /\ audio_log = <<>>
    /\ RoiUnused
    /\ AudioUnused
    /\ DetUnused
    /\ StreamUnused
    /\ ResetUnused

\* One iteration of the loop of generate_frames on the frame.
AppProcessFrame(frame) ==
    /\ calibration_count < MaxAppCount
    /\ \E cal \in {AppFrameCalibration(frame, plane_depth, calibration_count, is_calibrated)} :
         /\ plane_depth' = cal.plane
         /\ calibration_count' = cal.count
         /\ is_calibrated' = cal.calibrated
         /\ app_results' = AppResults(cal, frame)
    /\ constant_scene' = (constant_scene /\ frame = FourMarkers(scene_depth))
    /\ UNCHANGED <<scene_depth, notApp>>

CalibNext == \E frame \in AppFrames(scene_depth) : AppProcessFrame(frame)

\* The loop runs while frames are consumed: a frame is processed again and
\* again.
SpecCalib == CalibInit /\ [][CalibNext]_vars /\ WF_vars(CalibNext)

(***************************************************************************)
(* The web application around DepthCalibrationDetector (test/app.py): the  *)
(* stream request runs generate_frames in one thread and the reset request *)
(* runs reset_calibration in another; a thread can be suspended between    *)
(* any two statements, and inside a statement between the read of an       *)
(* attribute and the write of it.  An iteration of the loop is split at    *)
(* its reads and writes of plane_depth, calibration_count, is_calibrated.  *)
(***************************************************************************)
\* The locals of the iteration: the frame, current_plane_depth, and the
\* values read for the two read-modify-write statements.
FrameLocals(frame, cur, plane, count) ==
    [frame |-> frame, cur |-> cur, plane |-> plane, count |-> count]

NoLocals == FrameLocals(<<>>, None, None, 0)

\* The depths of the sheet in the scenes of these runs.
ResetScenes == {400, 1000}

ResetInit ==
    /\ DepthMapUnused
    /\ EditorUnused
    /\ ShadowUnused
    /\ PixelUnused
    /\ FixUnused
    /\ PlaneUnused
    /\ ArucoUnused
    /\ RegionUnused
    /\ StoreUnused
    /\ LifeUnused
    /\ plane_depth = None
    /\ calibration_count = 0
    /\ is_calibrated = FALSE
    /\ app_results = AppInitialResults
    /\ scene_depth \in ResetScenes
    /\ constant_scene = TRUE
    /\ frame_pc = "top"
    /\ frame_locals = NoLocals
    /\ reset_pc = "idle"
    /\ post_reset = "no"
    /\ resets_started = 0
    /\ now = 0
    /\ audio_log = <<>>
    /\ RoiUnused
    /\ AudioUnused
    /\ DetUnused
    /\ StreamUnused

\* calibrate_simple_plane reaches line 83 on the frame.
FrameHasDepths(frame) ==
    Cardinality(DOMAIN frame) >= 3 /\ Cardinality(MarkersInDepths(frame)) >= 3

\* The iteration in progress ends: what it means for the last reset.
AfterFrame(past) == IF past = "pending" THEN "settled" ELSE past

\* A frame is taken: what it means for the last reset.  A reset under way
\* that has seen no frame so far ("quiet") has seen one now.
FrameTaken(past) ==
    CASE past = "settled" -> "moved_on"
      [] past = "settled_quiet" -> "moved_on_quiet"
      [] past = "quiet" -> "no"
      [] OTHER -> past

\* Lines 192-213, 98-121 and 70-81: the frame is taken, the markers found
\* and the depths around them collected.
TakeFrame(frame) ==
    /\ frame_pc = "top"
    /\ calibration_count < MaxAppCount
    /\ IF FrameHasDepths(frame)
       THEN /\ frame_pc' = "check_plane"
            /\ frame_locals' =
                  FrameLocals(frame, MedianOfDepths(SortedRaws(frame, MarkersInDepths(frame))),
                              None, 0)
       ELSE /\ frame_pc' = "status"
            /\ frame_locals' = FrameLocals(frame, None, None, 0)
    /\ post_reset' = FrameTaken(post_reset)
    /\ constant_scene' = (constant_scene /\ frame = FourMarkers(scene_depth))
    /\ UNCHANGED <<plane_depth, calibration_count, is_calibrated, app_results,
                   scene_depth, reset_pc, resets_started, notReset>>

\* A step of the iteration that writes nothing of the detector.
FrameGoto(from, to) ==
    /\ frame_pc = from
    /\ frame_pc' = to
    /\ UNCHANGED <<appVars, frame_locals, reset_pc, post_reset, resets_started, notReset>>

\* line 83: if self.plane_depth is None
CheckPlane ==
    \/ plane_depth = None /\ FrameGoto("check_plane", "set_plane")
    \/ plane_depth # None /\ FrameGoto("check_plane", "load_plane")

\* line 84: self.plane_depth = current_plane_depth
SetPlane ==
    /\ frame_pc = "set_plane"
    /\ plane_depth' = frame_locals.cur
    /\ frame_pc' = "load_count"
    /\ UNCHANGED <<calibration_count, is_calibrated, app_results, scene_depth,
                   constant_scene, frame_locals, reset_pc, post_reset, resets_started,
                   notReset>>

\* The iteration raises: lines 247-249 print the error and continue.
FrameRaises(from) ==
    /\ frame_pc = from
    /\ frame_pc' = "top"
    /\ frame_locals' = NoLocals
    /\ post_reset' = AfterFrame(post_reset)
    /\ UNCHANGED <<appVars, reset_pc, resets_started, notReset>>

\* line 88, right-hand side: self.plane_depth is read and smoothed; None
\* there is a TypeError.
LoadPlane ==
    \/ /\ plane_depth = None
       /\ FrameRaises("load_plane")
    \/ /\ plane_depth # None
       /\ frame_pc = "load_plane"
       /\ frame_locals' = [frame_locals EXCEPT !.plane = SmoothPlane(frame_locals.cur, plane_depth)]
       /\ frame_pc' = "store_plane"
       /\ UNCHANGED <<appVars, reset_pc, post_reset, resets_started, notReset>>

\* line 88, the assignment
StorePlane ==
    /\ frame_pc = "store_plane"
    /\ plane_depth' = frame_locals.plane
    /\ frame_pc' = "load_count"
    /\ UNCHANGED <<calibration_count, is_calibrated, app_results, scene_depth,
                   constant_scene, frame_locals, reset_pc, post_reset, resets_started,
                   notReset>>

\* line 90, self.calibration_count += 1: the read
LoadCount ==
    /\ frame_pc = "load_count"
    /\ frame_locals' = [frame_locals EXCEPT !.count = calibration_count]
    /\ frame_pc' = "store_count"
    /\ UNCHANGED <<appVars, reset_pc, post_reset, resets_started, notReset>>

\* line 90: the write
StoreCount ==
    /\ frame_pc = "store_count"
    /\ calibration_count' = frame_locals.count + 1
    /\ frame_pc' = "check_count"
    /\ UNCHANGED <<plane_depth, is_calibrated, app_results, scene_depth, constant_scene,
                   frame_locals, reset_pc, post_reset, resets_started, notReset>>

\* line 91 without the test of the count
CheckCountAlways == FrameGoto("check_count", "set_calibrated")

\* line 91: if self.calibration_count >= 10
CheckCount ==
    \/ calibration_count >= AppCalibratedAt /\ FrameGoto("check_count", "set_calibrated")
    \/ calibration_count < AppCalibratedAt /\ FrameGoto("check_count", "status")

\* line 92: self.is_calibrated = True
SetCalibrated ==
    /\ frame_pc = "set_calibrated"
    /\ is_calibrated' = TRUE
    /\ frame_pc' = "status"
    /\ UNCHANGED <<plane_depth, calibration_count, app_results, scene_depth,
                   constant_scene, frame_locals, reset_pc, post_reset, resets_started,
                   notReset>>

\* lines 216-221: the status text; self.plane_depth * 1000 with None is a
\* TypeError.
StatusText ==
    \/ /\ is_calibrated /\ plane_depth = None
       /\ FrameRaises("status")
    \/ /\ ~(is_calibrated /\ plane_depth = None)
       /\ FrameGoto("status", "publish")

\* lines 227-245: detect_hands finds no hand, the result is published and the
\* frame sent.
PublishResults ==
    /\ frame_pc = "publish"
    /\ app_results' =
          AppResults(AppCalibration(plane_depth, calibration_count, is_calibrated, FALSE),
                     frame_locals.frame)
    /\ frame_pc' = "top"
    /\ frame_locals' = NoLocals
    /\ post_reset' = AfterFrame(post_reset)
    /\ UNCHANGED <<plane_depth, calibration_count, is_calibrated, scene_depth,
                   constant_scene, reset_pc, resets_started, notReset>>

\* POST /api/reset-calibration: the handler calls reset_calibration.
ResetCall ==
    /\ reset_pc = "idle"
    /\ resets_started < MaxResets
    /\ reset_pc' = "plane"
    /\ resets_started' = resets_started + 1
    /\ post_reset' = IF frame_pc = "top" THEN "quiet" ELSE "no"
    /\ UNCHANGED <<appVars, frame_pc, frame_locals, notReset>>

\* line 271: self.plane_depth = None
ResetPlane ==
    /\ reset_pc = "plane"
    /\ plane_depth' = None
    /\ reset_pc' = "count"
    /\ UNCHANGED <<calibration_count, is_calibrated, app_results, scene_depth,
                   constant_scene, frame_pc, frame_locals, post_reset, resets_started,
                   notReset>>

\* line 272: self.calibration_count = 0
ResetCount ==
    /\ reset_pc = "count"
    /\ calibration_count' = 0
    /\ reset_pc' = "calibrated"
    /\ UNCHANGED <<plane_depth, is_calibrated, app_results, scene_depth, constant_scene,
                   frame_pc, frame_locals, post_reset, resets_started, notReset>>

\* line 273: self.is_calibrated = False, and the call returns
ResetCalibrated ==
    /\ reset_pc = "calibrated"
    /\ is_calibrated' = FALSE
    /\ reset_pc' = "idle"
    /\ post_reset' = IF post_reset = "quiet" THEN "settled_quiet"
                     ELSE IF frame_pc = "top" THEN "settled" ELSE "pending"
    /\ UNCHANGED <<plane_depth, calibration_count, app_results, scene_depth,
                   constant_scene, frame_pc, frame_locals, resets_started, notReset>>

ResetNext ==
    \/ \E frame \in AppFrames(scene_depth) : TakeFrame(frame)
    \/ CheckPlane
    \/ SetPlane
    \/ LoadPlane
    \/ StorePlane
    \/ LoadCount
    \/ StoreCount
    \/ CheckCount
    \/ SetCalibrated
    \/ StatusText
    \/ PublishResults
    \/ ResetCall
    \/ ResetPlane
    \/ ResetCount
    \/ ResetCalibrated

SpecReset == ResetInit /\ [][ResetNext]_vars

(***************************************************************************)
(* C1.  Region cooldown of check_roi_touches.                              *)
(***************************************************************************)
\* The plays of region id among the entries from..to of a play log.
PlaysOf(log, id, from, to) == {k \in from..to : log[k][1] = id}

\* What one check_roi_touches call (a step that leaves the clock alone) does
\* for every region it reports: a playable region that never fired, or fired
\* more than 1.0 s ago, is played exactly once whatever the number of touch
\* points in it, and its trigger time is recorded; a playable region inside
\* its window is not played and keeps its trigger time; nothing else plays.
C1_CallStep ==
    LET old == Len(audio_log)
        new == Len(audio_log')
    IN  /\ new >= old
        /\ \A k \in 1..old : audio_log'[k] = audio_log[k]
        /\ \A j \in 1..Len(touched_rois') :
             LET roi == touched_rois'[j]
                 fresh == PlaysOf(audio_log', roi.id, old + 1, new)
             IN  (roi.audio_file \in ExistingFiles) =>
                   IF \/ roi.id \notin DOMAIN audio_cooldowns
                      \/ now - audio_cooldowns[roi.id] > RoiCooldownSeconds * TicksPerSecond
                   THEN /\ Cardinality(fresh) = 1
                        /\ \A k \in fresh : audio_log'[k][2] = now
                        /\ roi.id \in DOMAIN audio_cooldowns'
                        /\ audio_cooldowns'[roi.id] = now
                   ELSE /\ fresh = {}
                        /\ audio_cooldowns'[roi.id] = audio_cooldowns[roi.id]
        /\ \A k \in (old + 1)..new :
             \E j \in 1..Len(touched_rois') :
                /\ touched_rois'[j].id = audio_log'[k][1]
                /\ touched_rois'[j].audio_file \in ExistingFiles

\* Over the whole run two plays of one region are more than 1.0 s apart, and
\* the recorded trigger time of a region is the time of its last play.
C1_PlaysApart ==
    /\ \A i, j \in 1..Len(audio_log) :
         (i < j /\ audio_log[i][1] = audio_log[j][1]) =>
            audio_log[j][2] - audio_log[i][2] > RoiCooldownSeconds * TicksPerSecond
    /\ \A id \in DOMAIN audio_cooldowns :
         \E k \in 1..Len(audio_log) :
            /\ audio_log[k] = <<id, audio_cooldowns[id]>>
            /\ \A m \in (k + 1)..Len(audio_log) : audio_log[m][1] # id

\* C1: a region with a playable audio file is played on a hit only if it has
\* never fired or more than 1.0 s has elapsed since its last trigger, and the
\* trigger time is then recorded; two touches of one region within the window
\* (in one frame or over several) play it once, a touch after the window plays
\* it again.
C1_RoiCooldown == []C1_PlaysApart /\ [][now' = now => C1_CallStep]_vars

\* A call at the present time reported one playable region twice (two touch
\* points) and played it once, reported another inside its window without
\* playing it, and some region has by now been played twice.
C1_Witness ==
    /\ call_time = now
    /\ \E i, j \in 1..Len(touched_rois) :
         /\ i < j
         /\ touched_rois[i] = touched_rois[j]
         /\ touched_rois[i].audio_file \in ExistingFiles
         /\ Cardinality(PlaysOf(audio_log, touched_rois[i].id, 1, Len(audio_log))) = 2
         /\ audio_cooldowns[touched_rois[i].id] = now
    /\ \E i \in 1..Len(touched_rois) :
         /\ touched_rois[i].audio_file \in ExistingFiles
         /\ audio_cooldowns[touched_rois[i].id] < now

(***************************************************************************)
(* C2.  Region cooldown of AudioManager.play_audio.                        *)
(***************************************************************************)
\* C2: for every region id the editor or the store can assign, two plays of
\* the same roi_id are never less than cooldown_time (1.0 s) apart, and a
\* play_audio call inside the window returns False and plays nothing.
C2_AudioCooldown ==
    \A i, j \in 1..Len(audio_log) :
        (/\ i < j
         /\ audio_log[i][1] \in AssignableIds
         /\ audio_log[j][1] = audio_log[i][1])
        => audio_log[j][2] - audio_log[i][2] >= AudioCooldownTicks

\* The same statement for the ids whose Python truth value is true (every
\* uuid string, every integer id but 0).
C2_TruthyIdsCooldown ==
    \A i, j \in 1..Len(audio_log) :
        (/\ i < j
         /\ audio_log[i][1] \in AssignableIds
         /\ Truthy(audio_log[i][1])
         /\ audio_log[j][1] = audio_log[i][1])
        => audio_log[j][2] - audio_log[i][2] >= AudioCooldownTicks

\* A play_audio call for a truthy id inside its window was refused.
C2_Witness ==
    /\ returned = "False"
    /\ \E i \in 1..Len(audio_log) :
         /\ Truthy(audio_log[i][1])
         /\ audio_log[i][1] \in DOMAIN last_played
         /\ now - audio_log[i][2] < AudioCooldownTicks

(***************************************************************************)
(* C3.  The three-way classification of detect_finger_touch_depth.         *)
(***************************************************************************)
Rank(state) == CASE state = "touch" -> 0 [] state = "hover" -> 1 [] state = "far" -> 2

\* The doubled depth differences -20 mm .. 200 mm in steps of half a mm.
C3_Differences == (-40)..400

\* The case of the claim: the fingertip of the frame has been classified, it
\* is in the frame and in the sheet mask, the plane is calibrated and at
\* least 5 valid samples lie around it.
C3_Case ==
    /\ contact # None
    /\ paper_mask.present
    /\ paper_depth_reference # None
    /\ InFrame(finger_pos)
    /\ finger_pos \in paper_mask.pixels
    /\ Cardinality(ValidSamples(depth_data, paper_mask, finger_pos)) >= MinValidSamples

\* Twice depth_difference: plane depth minus median fingertip depth.
C3_Diff2 ==
    (2 * paper_depth_reference[1]) \div paper_depth_reference[2]
        - Median2(depth_data, ValidSamples(depth_data, paper_mask, finger_pos))

\* C3: in that case the classifier returns touch when depth_difference is
\* below 30 mm, hover when it is at or above 30 mm and below 80 mm, far when
\* it is at or above 80 mm, and reports that difference; the result is
\* monotonic: no smaller difference classifies farther, no larger one nearer.
C3_Classification ==
    C3_Case =>
        \A d2 \in {C3_Diff2} :
            /\ contact.depth_difference[1] * 2 = d2 * contact.depth_difference[2]
            /\ (d2 < 2 * 30) => contact.contact_state = "touch"
            /\ (d2 >= 2 * 30 /\ d2 < 2 * 80) => contact.contact_state = "hover"
            /\ (d2 >= 2 * 80) => contact.contact_state = "far"
            /\ \A n \in C3_Differences :
                 /\ n <= d2 => Rank(ContactState(n, 2)) <= Rank(contact.contact_state)
                 /\ n >= d2 => Rank(ContactState(n, 2)) >= Rank(contact.contact_state)

\* A fingertip exactly 30 mm above the plane was classified hover.
C3_Witness ==
    /\ C3_Case
    /\ C3_Diff2 = 2 * 30
    /\ contact.contact_state = "hover"

(***************************************************************************)
(* C4.  Fingertips outside the convex hull of the markers.                 *)
(***************************************************************************)
\* The board is visible, the plane depth is set and the fingertip of the
\* frame has been classified.
C4_Case ==
    /\ contact # None
    /\ Cardinality(DOMAIN marker_positions) >= 3
    /\ paper_depth_reference # None

C5_ThreeVisible == Cardinality(DOMAIN marker_positions \cap (0..3)) >= 3

\* x and y, in tenths of a mm, lie on the sheet.
C5_OnSheet(c) ==
    /\ 0 <= c[1] /\ c[1] <= 10 * A4Width
    /\ 0 <= c[2] /\ c[2] <= 10 * A4Height

\* The transformed point <<X, Y, W>> satisfies 0 <= x <= 210, 0 <= y <= 297.
C5_PointOnSheet(h) ==
    /\ 0 <= h[1] /\ h[1] <= A4Width * h[3]
    /\ 0 <= h[2] /\ h[2] <= A4Height * h[3]

\* C5: pixel_to_a4_coordinate returns a coordinate exactly when at least
\* three markers with ids in {0,1,2,3} are visible and the transformed point
\* satisfies 0 <= x <= 210 and 0 <= y <= 297, and None in every other case;
\* every a4_coord published in a detection result lies inside the sheet.
C5_CoordinateOnSheet ==
    /\ finger_pos # None =>
         /\ (a4_coord # None) <=>
               (/\ C5_ThreeVisible
                /\ C5_PointOnSheet(TransformPoint(finger_pos, marker_positions, DetMarginMm)))
         /\ a4_coord # None => C5_OnSheet(a4_coord)
    /\ \A i \in 1..Len(detection_results.hands) :
         detection_results.hands[i].a4_coord # None =>
            /\ C5_ThreeVisible
            /\ C5_OnSheet(detection_results.hands[i].a4_coord)

\* A frame published a fingertip with a coordinate, and one whose point lies
\* off the sheet was left out of the same result.
C5_Witness ==
    /\ Len(detection_results.hands) = 1
    /\ detection_results.hands[1].a4_coord # None
    /\ detection_results.hands[1].position = <<1, 1>>
    /\ PixelToA4(<<-1, 2>>, marker_positions, DetMarginMm) = None
    /\ paper_mask.present

(***************************************************************************)
(* C6.  A marker's own pixel maps to its reference position.               *)
(***************************************************************************)
\* No three of the points P on one line.
C6_NoThreeCollinear(P) ==
    \A a \in P, b \in P, c \in P :
        (a # b /\ a # c /\ b # c) => Det3(a, b, c) # 0

\* pixel_to_a4_coordinate was applied to the pixel of a visible marker, and
\* three or four markers are visible at non-degenerate positions.
C6_Case ==
    /\ finger_pos # None
    /\ Cardinality(DOMAIN marker_positions) >= 3
    /\ C6_NoThreeCollinear(MarkerPoints(marker_positions))
    /\ \E i \in DOMAIN marker_positions : marker_positions[i] = finger_pos

\* The reference position of marker i, in tenths of a mm.
C6_Reference(i) == <<10 * MarkerRefs(DetMarginMm)[i][1], 10 * MarkerRefs(DetMarginMm)[i][2]>>

\* C6: for every set of 3 or 4 visible markers at non-degenerate positions,
\* a marker's own pixel maps to the marker's reference position (the sheet
\* corner inset by the margin), with the affine and the projective transform.
C6_MarkerToReference ==
    C6_Case =>
        \A i \in DOMAIN marker_positions :
            marker_positions[i] = finger_pos => a4_coord = C6_Reference(i)

\* The linear system of the transform has a solution: always with three
\* markers off one line; with four, when the homography normalised to
\* h33 = 1 exists.
C6_Solvable ==
    \/ Cardinality(DOMAIN marker_positions) = 3
    \/ ~PerspectiveSingular(
          [i \in 1..4 |-> marker_positions[i - 1]],
          [i \in 1..4 |-> MarkerRefs(DetMarginMm)[i - 1]])

\* The same statement for the marker sets whose system has a solution.
C6_SolvableMarkerToReference ==
    (C6_Case /\ C6_Solvable) =>
        \A i \in DOMAIN marker_positions :
            marker_positions[i] = finger_pos => a4_coord = C6_Reference(i)

\* Marker 2 of four skewed markers was mapped to its reference position.
C6_Witness ==
    /\ C6_Case
    /\ Cardinality(DOMAIN marker_positions) = 4
    /\ marker_positions[0] = <<0, 1>>
    /\ marker_positions[2] = finger_pos
    /\ a4_coord = C6_Reference(2)

(***************************************************************************)
(* C7.  Calibration on a constant scene.                                   *)
(***************************************************************************)
\* The depth d every marker of the scene shows, in metres.
C7_InputDepth == GetDepthAtPoint(scene_depth)

\* Every frame so far showed the four markers at d, and at least one was
\* accepted.
C7_Case == constant_scene /\ calibration_count > 0

\* the calibrated state: the sample count is at or above the threshold
C7_CalibratedAtThreshold == is_calibrated <=> calibration_count >= AppCalibratedAt

C7_PlaneIsInput == C7_Case => plane_depth = C7_InputDepth

\* C7 as stated: when every frame shows the four markers with the same
\* valid depth d, calibration eventually reaches the calibrated state (sample
\* count at or above the threshold) and the plane depth equals d at every
\* accepted frame.
C7_ConvergesToInput ==
    /\ <>(~constant_scene \/ is_calibrated)
    /\ []C7_CalibratedAtThreshold
    /\ []C7_PlaneIsInput

\* the plane depth is d after the first accepted frame and within d * 2^-48
\* of d after every accepted frame
C7_PlaneNearInput ==
    C7_Case =>
        /\ calibration_count = 1 => plane_depth = C7_InputDepth
        /\ FWithin(plane_depth, C7_InputDepth, C7_InputDepth, 48)

\* C7, amended: when every frame shows the four markers with the same valid
\* depth d, calibration eventually reaches the calibrated state (sample count
\* at or above the threshold); the plane depth equals d at the first accepted
\* frame and stays within a relative error of 2^-48 of d at every accepted
\* frame.
C7_ConvergesNearInput ==
    /\ <>(~constant_scene \/ is_calibrated)
    /\ []C7_CalibratedAtThreshold
    /\ []C7_PlaneNearInput

\* A constant scene is calibrated with a plane depth that is not d.
C7_Witness ==
    /\ C7_Case
    /\ is_calibrated
    /\ calibration_count = AppCalibratedAt
    /\ plane_depth # C7_InputDepth
    /\ app_results.calibrated

(***************************************************************************)
(* C8.  What a reader of get_detection_results gets.                       *)
(***************************************************************************)
\* A call of get_detection_results has returned.
C8_Returned == read_pc = "idle" /\ reads_started > 0

\* C8: a reader calling get_detection_results while the frame loop runs gets
\* a result whose fields (board, detected_markers, depth_reference,
\* calibration_progress, hands) all come from one frame's snapshot, the one
\* published before the call or one published during it, never from two.
C8_OneSnapshot ==
    C8_Returned => \E d \in read_seen : read_result = ReaderView(d)

\* Each field of the result by itself comes from a snapshot the detector
\* held during the call.
C8_FieldsFromSnapshots ==
    C8_Returned =>
        \A key \in DOMAIN read_result :
            \E d \in read_seen : read_result[key] = ReaderView(d)[key]

\* A call returned after a frame was published in its course.
C8_Witness ==
    /\ C8_Returned
    /\ Cardinality(read_seen) = 2
    /\ read_result.board
    /\ \E d \in read_seen : read_result = ReaderView(d)

(***************************************************************************)
(* C9.  The writers of the detector.                                       *)
(***************************************************************************)
\* The loops that stand between their two writes of the detector.
C9_LoopsInFrame == {c \in Clients : loop_pc[c] = "frame"}

\* C9: at every moment at most one frame loop is writing the detector state
\* (plane depth, calibration counter, latest result), however many clients
\* request the video stream.
C9_SingleWriter == Cardinality(C9_LoopsInFrame) <= 1

(***************************************************************************)
(* C10.  reset_calibration while frames are processed.                     *)
(***************************************************************************)
\* The last reset_calibration has returned and the iteration that was in
\* progress then has ended; no later frame has been taken.
C10_Settled == post_reset \in {"settled", "settled_quiet"}

\* ... or later frames have been taken since.
C10_PastReset == post_reset \in {"settled", "settled_quiet", "moved_on", "moved_on_quiet"}

C10_Cleared == plane_depth = None /\ calibration_count = 0 /\ ~is_calibrated

C10_GateAtThreshold == is_calibrated => calibration_count >= AppCalibratedAt

\* C10: reset_calibration, called at any time including while a frame is
\* being processed, leaves plane_depth unset, calibration_count 0 and
\* is_calibrated false once it has returned and the frame in progress has
\* finished; classification (enabled by is_calibrated) then stays disabled
\* until calibration_count again reaches the threshold.
C10_ResetClears ==
    /\ C10_Settled => C10_Cleared
    /\ C10_PastReset => C10_GateAtThreshold

\* The same for a reset_calibration that runs from call to return while the
\* loop stands between two frames.
C10_QuietResetClears ==
    /\ post_reset = "settled_quiet" => C10_Cleared
    /\ post_reset \in {"settled_quiet", "moved_on_quiet"} => C10_GateAtThreshold

\* A calibrated detector was reset between two frames.
C10_Witness ==
    /\ post_reset = "settled_quiet"
    /\ app_results.calibrated
    /\ C10_Cleared

(***************************************************************************)
(* The life of the camera pipeline.  A process imports the application     *)
(* module, which constructs the detector at module level (test/app.py 276  *)
(* for DepthCalibrationDetector), serves requests with app.run and exits.  *)
(* DepthCalibrationDetector starts the pipeline in __init__, start() and   *)
(* stop() are public methods and the script calls them around app.run.     *)
(* A4DepthStreamDetector starts the pipeline in __init__ and stops it in   *)
(* __del__ only; it has no start(), stop() or running flag.  Each open     *)
(* /video_feed response drives one generate_frames generator in a thread   *)
(* of the server; a generator suspended at yield is resumed by the server  *)
(* or closed when the client goes away.                                    *)
(***************************************************************************)
\* The calls of stop() and start() in one run, besides none.
MaxStopCalls == 2

MaxStartCalls == 2

\* The variables a life-cycle run does not hold.
notLife == <<now, audio_log, roiVars, audioVars, detVars, appVars, streamVars, resetVars, storeVars, regionVars, arucoVars, planeVars, fixVars, pixelVars, shadowVars, editorVars, mapVars>>

LifeClasses == {"DepthCalibrationDetector", "A4DepthStreamDetector"}

\* Pipeline() then self.pipeline.start(): both succeed, start() raises, or
\* Pipeline() raises (no device, the SDK missing).
StartOutcomes == {"started", "start raises", "Pipeline raises"}

\* The pipeline attribute after the two statements.
PipelineAfter(outcome) ==
    CASE outcome = "started" -> "started"
      [] outcome = "start raises" -> "created"
      [] OTHER -> "absent"

LifeInit ==
    /\ DepthMapUnused
    /\ EditorUnused
    /\ ShadowUnused
    /\ PixelUnused
    /\ FixUnused
    /\ PlaneUnused
    /\ ArucoUnused
    /\ RegionUnused
    /\ StoreUnused
    /\ detector_class \in LifeClasses
    /\ life_pc = "import"
    /\ pipeline = "absent"
    /\ pipeline_starts = 0
    /\ pipeline_stops = 0
    /\ camera_available = FALSE
    /\ running = FALSE
    /\ gen_pc = [c \in Clients |-> "none"]
    /\ stop_calls = 0
    /\ start_calls = 0
    /\ now = 0
    /\ audio_log = <<>>
    /\ RoiUnused
    /\ AudioUnused
    /\ DetUnused
    /\ AppUnused
    /\ StreamUnused
    /\ ResetUnused

\* DepthCalibrationDetector.__init__: the try block swallows a failure of
\* Pipeline() or start() and records it in camera_available.
DepthCalibrationDetectorInit ==
    /\ DepthMapUnused
    /\ EditorUnused
    /\ ShadowUnused
    /\ PixelUnused
    /\ FixUnused
    /\ PlaneUnused
    /\ ArucoUnused
    /\ RegionUnused
    /\ StoreUnused
    /\ detector_class = "DepthCalibrationDetector"
    /\ life_pc = "import"
    /\ \E outcome \in StartOutcomes :
         /\ pipeline' = PipelineAfter(outcome)
         /\ pipeline_starts' = IF outcome = "started" THEN pipeline_starts + 1 ELSE pipeline_starts
         /\ camera_available' = (outcome = "started")
    /\ running' = FALSE
    /\ life_pc' = "constructed"
    /\ UNCHANGED <<detector_class, pipeline_stops, gen_pc, stop_calls, start_calls, notLife>>

\* A4DepthStreamDetector.__init__: no try block, a failure leaves __init__ as
\* an exception of the module-level construction and ends the process.
A4DepthStreamDetectorInit ==
    /\ DepthMapUnused
    /\ EditorUnused
    /\ ShadowUnused
    /\ PixelUnused
    /\ FixUnused
    /\ PlaneUnused
    /\ ArucoUnused
    /\ RegionUnused
    /\ StoreUnused
    /\ detector_class = "A4DepthStreamDetector"
    /\ life_pc = "import"
    /\ \E outcome \in StartOutcomes :
         /\ pipeline' = PipelineAfter(outcome)
         /\ pipeline_starts' = IF outcome = "started" THEN pipeline_starts + 1 ELSE pipeline_starts
         /\ life_pc' = IF outcome = "started" THEN "constructed" ELSE "startup_error"
    /\ UNCHANGED <<detector_class, pipeline_stops, camera_available, running, gen_pc, stop_calls, start_calls, notLife>>

\* self.pipeline.stop() as stop() executes it: behind camera_available only,
\* whatever the state of the pipeline.
StopPipeline ==
    IF camera_available
    THEN /\ pipeline' = "stopped"
         /\ pipeline_stops' = pipeline_stops + 1
    ELSE UNCHANGED <<pipeline, pipeline_stops>>

\* DepthCalibrationDetector.start()
StartBody ==
    /\ running' = TRUE
    /\ start_calls' = start_calls + 1

\* DepthCalibrationDetector.stop()
StopBody ==
    /\ running' = FALSE
    /\ StopPipeline
    /\ stop_calls' = stop_calls + 1

\* The script: detector.start(), then app.run(...) serves.
MainStart ==
    /\ detector_class = "DepthCalibrationDetector"
    /\ life_pc = "constructed"
    /\ StartBody
    /\ life_pc' = "serving"
    /\ UNCHANGED <<detector_class, pipeline, pipeline_starts, pipeline_stops, camera_available, gen_pc, stop_calls, notLife>>

\* The threads of the server end with the process.
GeneratorsEnded == [c \in Clients |-> IF gen_pc[c] = "none" THEN "none" ELSE "done"]

\* The script: app.run returns or raises, finally: detector.stop(), exit.
MainFinally ==
    /\ detector_class = "DepthCalibrationDetector"
    /\ life_pc = "serving"
    /\ StopBody
    /\ life_pc' = "exited"
    /\ gen_pc' = GeneratorsEnded
    /\ UNCHANGED <<detector_class, pipeline_starts, camera_available, start_calls, notLife>>

\* A caller of the detector object calls stop().
Stop ==
    /\ detector_class = "DepthCalibrationDetector"
    /\ life_pc \in {"constructed", "serving"}
    /\ stop_calls < MaxStopCalls
    /\ StopBody
    /\ UNCHANGED <<detector_class, life_pc, pipeline_starts, camera_available, gen_pc, start_calls, notLife>>

\* A caller of the detector object calls start().
Start ==
    /\ detector_class = "DepthCalibrationDetector"
    /\ life_pc \in {"constructed", "serving"}
    /\ start_calls < MaxStartCalls
    /\ StartBody
    /\ UNCHANGED <<detector_class, life_pc, pipeline, pipeline_starts, pipeline_stops, camera_available, gen_pc, stop_calls, notLife>>

\* The application of A4DepthStreamDetector: app.run(...) serves.
A4Serve ==
    /\ detector_class = "A4DepthStreamDetector"
    /\ life_pc = "constructed"
    /\ life_pc' = "serving"
    /\ UNCHANGED <<detector_class, pipeline, pipeline_starts, pipeline_stops, camera_available, running, gen_pc, stop_calls, start_calls, notLife>>

\* ... app.run returns or raises and the interpreter shuts down.
A4Shutdown ==
    /\ detector_class = "A4DepthStreamDetector"
    /\ life_pc = "serving"
    /\ life_pc' = "finalizing"
    /\ gen_pc' = GeneratorsEnded
    /\ UNCHANGED <<detector_class, pipeline, pipeline_starts, pipeline_stops, camera_available, running, stop_calls, start_calls, notLife>>

\* A4DepthStreamDetector.__del__: stops the pipeline when the attribute
\* exists, started or not, and swallows what stop() raises.  It runs when
\* the object is collected: after the failed construction, or at shutdown.
Del ==
    /\ detector_class = "A4DepthStreamDetector"
    /\ life_pc \in {"startup_error", "finalizing"}
    /\ pipeline \in {"created", "started"}
    /\ pipeline' = "stopped"
    /\ pipeline_stops' = pipeline_stops + 1
    /\ life_pc' = IF life_pc = "finalizing" THEN "exited" ELSE life_pc
    /\ UNCHANGED <<detector_class, pipeline_starts, camera_available, running, gen_pc, stop_calls, start_calls, notLife>>

\* The interpreter exits without calling __del__ of the object: Python does
\* not guarantee the call for an object that exists at exit.
ExitWithoutDel ==
    /\ detector_class = "A4DepthStreamDetector"
    /\ life_pc = "finalizing"
    /\ life_pc' = "exited"
    /\ UNCHANGED <<detector_class, pipeline, pipeline_starts, pipeline_stops, camera_available, running, gen_pc, stop_calls, start_calls, notLife>>

GenGoto(c, next) ==
    /\ gen_pc' = [gen_pc EXCEPT ![c] = next]
    /\ UNCHANGED <<detector_class, life_pc, pipeline, pipeline_starts, pipeline_stops, camera_available, running, stop_calls, start_calls, notLife>>

\* GET /video_feed: the response starts the generator.  generate_frames of
\* DepthCalibrationDetector takes the test-frame branch without a camera.
VideoFeed(c) ==
    /\ life_pc = "serving"
    /\ gen_pc[c] = "none"
    /\ GenGoto(c, IF detector_class = "DepthCalibrationDetector" /\ ~camera_available THEN "test_top" ELSE "top")

\* The head of the frame loop: while self.running (DepthCalibrationDetector),
\* while True (A4DepthStreamDetector).
LoopHead(c) ==
    /\ gen_pc[c] = "top"
    /\ GenGoto(c, IF detector_class = "A4DepthStreamDetector" \/ running THEN "acquire" ELSE "done")

\* wait_for_frames(100) and the rest of the iteration.  Only a started
\* pipeline delivers frames; no frames, a missing colour or depth frame, an
\* exception, or a failed JPEG encoding lead back to the head of the loop.
Iteration(c) ==
    /\ gen_pc[c] = "acquire"
    /\ \E yields \in {y \in BOOLEAN : y => pipeline = "started"} :
         GenGoto(c, IF yields THEN "yield" ELSE "top")

\* The server asks a generator suspended at yield for the next frame.
Resume(c) ==
    /\ gen_pc[c] = "yield"
    /\ GenGoto(c, "top")

\* The head of the test-frame loop: while self.running.
TestLoopHead(c) ==
    /\ gen_pc[c] = "test_top"
    /\ GenGoto(c, IF running THEN "test_yield" ELSE "done")

\* ... resumed after the yield of a "Camera not available" frame: sleep(0.1).
TestResume(c) ==
    /\ gen_pc[c] = "test_yield"
    /\ GenGoto(c, "test_top")

\* The client goes away: the server closes the suspended generator.
CloseGenerator(c) ==
    /\ gen_pc[c] \in {"yield", "test_yield"}
    /\ GenGoto(c, "done")

\* A step of the thread that runs the generator of client c.
GenStep(c) ==
    \/ LoopHead(c)
    \/ Iteration(c)
    \/ Resume(c)
    \/ TestLoopHead(c)
    \/ TestResume(c)
    \/ CloseGenerator(c)

LifeNext ==
    \/ DepthCalibrationDetectorInit
    \/ A4DepthStreamDetectorInit
    \/ MainStart
    \/ MainFinally
    \/ Stop
    \/ Start
    \/ A4Serve
    \/ A4Shutdown
    \/ Del
    \/ ExitWithoutDel
    \/ \E c \in Clients : VideoFeed(c)
    \/ \E c \in Clients : LoopHead(c)
    \/ \E c \in Clients : Iteration(c)
    \/ \E c \in Clients : Resume(c)
    \/ \E c \in Clients : TestLoopHead(c)
    \/ \E c \in Clients : TestResume(c)
    \/ \E c \in Clients : CloseGenerator(c)

\* A thread of the server is scheduled as long as it has a step to take.
LifeFairness == \A c \in Clients : WF_vars(GenStep(c))

SpecLife == LifeInit /\ [][LifeNext]_vars /\ LifeFairness

(***************************************************************************)
(* C11.  Scoped start/stop of the camera pipeline.                         *)
(***************************************************************************)
\* The process is over: it exited, or died of the startup error.
ProcessOver == life_pc \in {"exited", "startup_error"}

\* C11: over any sequence of startup, stop, error and shutdown events the
\* pipeline is started once and stopped exactly once: never started twice,
\* never stopped more often than started (no second stop, no stop of a
\* pipeline that was not started), and never left running once the process
\* is over.
C11_StartedOnceStoppedOnce ==
    /\ pipeline_starts <= 1
    /\ pipeline_stops <= pipeline_starts
    /\ ProcessOver => pipeline # "started"

\* C11, the run of the script alone: when DepthCalibrationDetector is
\* stopped by the finally clause of the script and by nobody else, the
\* process ends with a pipeline that was started at most once, stopped as
\* often as started, and is not running.
C11_ScriptStopsOnce ==
    (detector_class = "DepthCalibrationDetector" /\ life_pc = "exited" /\ stop_calls = 1)
        => /\ pipeline_starts <= 1
           /\ pipeline_stops = pipeline_starts
           /\ pipeline # "started"

C11_Witness ==
    /\ detector_class = "DepthCalibrationDetector"
    /\ life_pc = "exited"
    /\ stop_calls = 1
    /\ pipeline = "stopped"
    /\ pipeline_stops = 1

(***************************************************************************)
(* C12.  Cooperative cancellation of the frame loops.                      *)
(***************************************************************************)
\* No generate_frames generator is inside its loop.
AllGeneratorsEnded == \A c \in Clients : gen_pc[c] \in {"none", "done"}

\* C12: after stop() is called every running frame loop terminates (it
\* observes the cleared running flag at the head of an iteration) and the
\* camera pipeline has been stopped: no frame loop keeps running forever
\* after a stop request.
C12_StopEndsLoops ==
    (stop_calls > 0) ~> (AllGeneratorsEnded /\ pipeline # "started")

\* C12 as far as the running flag carries it: stop() leaves no started
\* pipeline behind, and from a state where stop() has cleared the flag the
\* frame loops all end unless start() sets the flag again first.
C12_StopEndsLoopsUnlessRestarted ==
    /\ [](stop_calls > 0 => pipeline # "started")
    /\ (stop_calls > 0 /\ ~running) ~> (AllGeneratorsEnded \/ running)

\* A frame loop of a detector with a camera has ended after stop(), while
\* the server is still up.
C12_Witness ==
    /\ life_pc = "serving"
    /\ camera_available
    /\ stop_calls = 1
    /\ ~running
    /\ pipeline = "stopped"
    /\ \E c \in Clients : gen_pc[c] = "done"

(***************************************************************************)
(* C14.  A camera pipeline that fails to start.                            *)
(***************************************************************************)
\* The construction is over and did not start the pipeline.
StartFailed == life_pc # "import" /\ pipeline_starts = 0

\* Client c has been handed a frame of the stream.
ServesFrame(c) == gen_pc[c] \in {"yield", "test_yield"}

\* A failed start ended the process with the startup error, and no stream
\* was opened or served.
FailureIsFatal ==
    StartFailed => /\ life_pc = "startup_error"
                   /\ \A c \in Clients : gen_pc[c] = "none"

\* C14: if the camera pipeline fails to start, the failure is fatal at
\* startup and surfaced as a startup error: the detector never stands
\* constructed, serving a frame stream, without a started camera.
C14_FailedStartIsFatal == FailureIsFatal

\* C14 for A4DepthStreamDetector, whose __init__ lets the exception out.
C14_A4FailedStartIsFatal ==
    detector_class = "A4DepthStreamDetector" => FailureIsFatal

C14_Witness ==
    /\ detector_class = "A4DepthStreamDetector"
    /\ StartFailed
    /\ life_pc = "startup_error"

(***************************************************************************)
(* C13.  A frame acquisition that delivers no frame.                       *)
(***************************************************************************)
\* A step in which a frame loop asked the camera for a frame and got none.
NoFrameStep == frames_started' # frames_started /\ loop_frame' = loop_frame

\* ... leaves the plane depth, the calibration counter, the cooldown
\* timestamps and the latest result as they were, and every loop at the
\* head of its iteration.
SkipsIteration ==
    /\ UNCHANGED <<paper_depth_reference, calibration_frames, detection_results>>
    /\ UNCHANGED <<audio_cooldowns, last_played, audio_log>>
    /\ loop_pc' = loop_pc

\* C13: when frame acquisition times out or yields no colour or depth frame
\* the frame loop skips the iteration: the detector state and the latest
\* result are unchanged and the loop goes on to the next frame instead of
\* ending the stream.
C13_NoFrameSkipsIteration == [][NoFrameStep => SkipsIteration]_vars

\* C13 for the loop of A4DepthStreamDetector.
C13_A4NoFrameSkipsIteration ==
    [][(detector_class = "A4DepthStreamDetector" /\ NoFrameStep) => SkipsIteration]_vars

\* A4DepthStreamDetector got no frame at every acquisition so far and its
\* loop is still at the head of an iteration.
C13_Witness ==
    /\ detector_class = "A4DepthStreamDetector"
    /\ frames_started = MaxFrames
    /\ detection_results = InitialResults
    /\ \A c \in Clients : loop_frame[c] = None
    /\ \E c \in Clients : loop_pc[c] = "top"

(***************************************************************************)
(* FileManager: one folder per project under projects_folder, holding the  *)
(* project's config.json.  The content of a config.json is kept as the     *)
(* dict that json.dump wrote: its values are str, int, None and lists and  *)
(* dicts of these, which json.load gives back unchanged.  A folder name is *)
(* the pair of secure_filename(name) and the uuid prefix.                  *)
(***************************************************************************)
\* The uuid4 values one run draws, and its add/update/delete_roi calls.
MaxUuids == 2

MaxRoiCalls == 2

notStore == <<now, audio_log, roiVars, audioVars, detVars, appVars, streamVars, resetVars, lifeVars, regionVars, arucoVars, planeVars, fixVars, pixelVars, shadowVars, editorVars, mapVars>>

\* Project names of these runs, and werkzeug's secure_filename of each.
ProjectNames == {"demo", "my map"}

secure_filename(name) == IF name = "my map" THEN "my_map" ELSE name

\* background_image arguments: Python's None, or a file name.
BackgroundImages == {"None", "bg.png"}

\* A folder nothing was created in.
MissingFolder == <<"missing", 0>>

\* roi_data dicts of these runs: a rectangle and a circle.
RoiDatas ==
    { [type |-> "rectangle", x |-> 10, y |-> 20, width |-> 30, height |-> 40],
      [type |-> "circle", x |-> 50, y |-> 60, radius |-> 5] }

\* roi_data of an update_roi call.
RoiUpdates == { [x |-> 11], [name |-> "bell"] }

\* dict.update
Update(d, changes) ==
    [k \in DOMAIN d \cup DOMAIN changes |-> IF k \in DOMAIN changes THEN changes[k] ELSE d[k]]

\* The call and its return value.
StoreCall(op, project, value) == [op |-> op, project |-> project, value |-> value]

StoreInit ==
    /\ DepthMapUnused
    /\ EditorUnused
    /\ ShadowUnused
    /\ PixelUnused
    /\ FixUnused
    /\ PlaneUnused
    /\ ArucoUnused
    /\ RegionUnused
    /\ config_files = <<>>
    /\ store_result = StoreCall("none", MissingFolder, None)
    /\ uuids_drawn = 0
    /\ claimed_rois = <<>>
    /\ roi_calls = 0
    /\ now = 0
    /\ audio_log = <<>>
    /\ RoiUnused
    /\ AudioUnused
    /\ DetUnused
    /\ AppUnused
    /\ StreamUnused
    /\ ResetUnused
    /\ LifeUnused

\* project_config of create_project
ProjectConfig(name, background_image) ==
    [name |-> name, created_at |-> now, background_image |-> background_image, rois |-> <<>>]

\* config with config['folder_name'] = folder_name
WithFolderName(config, folder_name) == Update(config, [folder_name |-> folder_name])

\* save_config of save_project: the copy without 'folder_name'
SaveConfig(config) == [k \in DOMAIN config \ {"folder_name"} |-> config[k]]

\* load_project: the body that opens and returns the config is under
\* `if not os.path.exists(config_path)`.  For a missing file open() raises
\* and the except clause returns None; for an existing file the condition
\* is false and the function ends without a return statement.
load_project(fs, project_name) ==
    IF project_name \notin DOMAIN fs
    THEN None
    ELSE None

\* create_project(name, background_image)
CreateProject(name, background_image) ==
    /\ uuids_drawn < MaxUuids
    /\ \E folder_name \in {<<secure_filename(name), uuids_drawn + 1>>} :
         /\ config_files' = Update(config_files, folder_name :> ProjectConfig(name, background_image))
         /\ store_result' = StoreCall("create_project", folder_name,
                                      WithFolderName(ProjectConfig(name, background_image), folder_name))
         /\ claimed_rois' = Update(claimed_rois, folder_name :> <<>>)
    /\ uuids_drawn' = uuids_drawn + 1
    /\ UNCHANGED <<roi_calls, notStore>>

\* load_project(project_name)
LoadProject(project_name) ==
    /\ store_result' = StoreCall("load_project", project_name, load_project(config_files, project_name))
    /\ UNCHANGED <<config_files, uuids_drawn, claimed_rois, roi_calls, notStore>>

\* The region add_roi builds from roi_data.
NewRoi(roi_id, roi_data, count) ==
    Update([id |-> roi_id, type |-> roi_data.type, x |-> roi_data.x, y |-> roi_data.y,
            name |-> <<"ROI", count + 1>>, audio_file |-> "", created_at |-> now],
           IF roi_data.type = "rectangle"
           THEN [width |-> roi_data.width, height |-> roi_data.height]
           ELSE [radius |-> roi_data.radius])

\* The regions the calls made so far describe, after one more call.
ClaimAfter(project_name, rois) ==
    IF project_name \in DOMAIN claimed_rois
    THEN Update(claimed_rois, project_name :> rois)
    ELSE claimed_rois

Claimed(project_name) ==
    IF project_name \in DOMAIN claimed_rois THEN claimed_rois[project_name] ELSE <<>>

\* add_roi(project_name, roi_data)
AddRoi(project_name, roi_data) ==
    /\ roi_calls < MaxRoiCalls
    /\ roi_calls' = roi_calls + 1
    /\ claimed_rois' = ClaimAfter(project_name, Append(Claimed(project_name), roi_data))
    /\ \E config \in {load_project(config_files, project_name)} :
         IF config = None
         THEN /\ store_result' = StoreCall("add_roi", project_name, None)
              /\ UNCHANGED <<config_files, uuids_drawn>>
         ELSE \E roi \in {NewRoi(uuids_drawn + 1, roi_data, Len(config.rois))} :
                /\ uuids_drawn' = uuids_drawn + 1
                /\ config_files' = Update(config_files, project_name :>
                       SaveConfig(Update(config, [rois |-> Append(config.rois, roi)])))
                /\ store_result' = StoreCall("add_roi", project_name, roi)
    /\ UNCHANGED notStore

\* The list with its element at index i replaced.
Replaced(list, i, e) == [list EXCEPT ![i] = e]

\* update_roi(project_name, roi_id, roi_data); roi_id names the region by
\* its position among the regions added.
UpdateRoi(project_name, index, roi_data) ==
    /\ roi_calls < MaxRoiCalls
    /\ roi_calls' = roi_calls + 1
    /\ claimed_rois' =
          ClaimAfter(project_name,
                     IF index \in 1..Len(Claimed(project_name))
                     THEN Replaced(Claimed(project_name), index,
                                   Update(Claimed(project_name)[index], roi_data))
                     ELSE Claimed(project_name))
    /\ \E config \in {load_project(config_files, project_name)} :
         IF config = None
         THEN /\ store_result' = StoreCall("update_roi", project_name, None)
              /\ UNCHANGED config_files
         ELSE IF index \in 1..Len(config.rois)
              THEN \E roi \in {Update(Update(config.rois[index], roi_data), [modified_at |-> now])} :
                     /\ config_files' = Update(config_files, project_name :>
                            SaveConfig(Update(config, [rois |-> Replaced(config.rois, index, roi)])))
                     /\ store_result' = StoreCall("update_roi", project_name, roi)
              ELSE /\ store_result' = StoreCall("update_roi", project_name, None)
                   /\ UNCHANGED config_files
    /\ UNCHANGED <<uuids_drawn, notStore>>

\* The list without its element at index i.
Without(list, i) ==
    IF i \in 1..Len(list)
    THEN [k \in 1..(Len(list) - 1) |-> IF k < i THEN list[k] ELSE list[k + 1]]
    ELSE list

\* delete_roi(project_name, roi_id)
DeleteRoi(project_name, index) ==
    /\ roi_calls < MaxRoiCalls
    /\ roi_calls' = roi_calls + 1
    /\ claimed_rois' = ClaimAfter(project_name, Without(Claimed(project_name), index))
    /\ \E config \in {load_project(config_files, project_name)} :
         IF config = None
         THEN /\ store_result' = StoreCall("delete_roi", project_name, FALSE)
              /\ UNCHANGED config_files
         ELSE /\ config_files' = Update(config_files, project_name :>
                     SaveConfig(Update(config, [rois |-> Without(config.rois, index)])))
              /\ store_result' = StoreCall("delete_roi", project_name, TRUE)
    /\ UNCHANGED <<uuids_drawn, notStore>>

\* The folders a call can name: those created, and one that was not.
Folders == DOMAIN config_files \cup {MissingFolder}

StoreNext ==
    \/ \E name \in ProjectNames, background_image \in BackgroundImages : CreateProject(name, background_image)
    \/ \E project_name \in Folders : LoadProject(project_name)
    \/ \E project_name \in Folders, roi_data \in RoiDatas : AddRoi(project_name, roi_data)
    \/ \E project_name \in Folders, index \in 1..2, roi_data \in RoiUpdates : UpdateRoi(project_name, index, roi_data)
    \/ \E project_name \in Folders, index \in 1..2 : DeleteRoi(project_name, index)

SpecStore == StoreInit /\ [][StoreNext]_vars

(***************************************************************************)
(* C15.  The project store gives back what was stored.                     *)
(***************************************************************************)
\* What load_project owes for the folder: the stored name and background,
\* folder_name set, and the regions the roi calls so far describe.
LoadsStored(value, project_name) ==
    /\ value # None
    /\ value.name = config_files[project_name].name
    /\ value.background_image = config_files[project_name].background_image
    /\ value.folder_name = project_name
    /\ Len(value.rois) = Len(Claimed(project_name))
    /\ \A i \in 1..Len(value.rois) :
         \A k \in DOMAIN Claimed(project_name)[i] :
             value.rois[i][k] = Claimed(project_name)[i][k]

\* C15: after create_project, load_project on the project's folder returns
\* its stored configuration (name, background_image, rois) with folder_name
\* set, and after add_roi, update_roi or delete_roi on an existing project a
\* later load_project returns rois that reflect the change.
C15_LoadReturnsStored ==
    (store_result.op = "load_project" /\ store_result.project \in DOMAIN config_files)
        => LoadsStored(store_result.value, store_result.project)

(***************************************************************************)
(* One region through the tools of test/minimal: the hit test of           *)
(* FixedROIDetector.check_roi_touches and of ROIDetector.check_roi_touches *)
(* and the rectangle create_a4_template_with_rois prints for it.  The      *)
(* region is a dict of the editor (x, y, width, height on the 800x600      *)
(* canvas) or a circle as FileManager.add_roi stores it (x, y, radius).    *)
(***************************************************************************)
TemplateWidth == 2480

TemplateHeight == 3508

TemplateMarkerSize == 150

TemplateMargin == 30

TemplatePadding == 50

notRegion == <<now, audio_log, roiVars, audioVars, detVars, appVars, streamVars, resetVars, lifeVars, storeVars, arucoVars, planeVars, fixVars, pixelVars, shadowVars, editorVars, mapVars>>

\* content_left, content_top, content_width, content_height
ContentLeft == TemplateMargin + TemplateMarkerSize + TemplatePadding

ContentTop == TemplateMargin + TemplateMarkerSize + TemplatePadding

ContentWidth == (TemplateWidth - TemplateMarkerSize - TemplateMargin - TemplatePadding) - ContentLeft

ContentHeight == (TemplateHeight - TemplateMarkerSize - TemplateMargin - TemplatePadding) - ContentTop

\* A circle region as add_roi builds it: no width, no height.
CircleRoi(id, x, y, radius) ==
    [id |-> id, type |-> "circle", x |-> x, y |-> y, radius |-> radius, audio_file |-> ""]

\* Regions of these runs: rectangles the editor accepts (sides over 20
\* pixels), among them the whole canvas, and two circles.
Regions ==
    { Roi(0, 0, 0, 800, 600, ""), Roi(0, 100, 100, 200, 150, ""),
      Roi(0, 333, 77, 21, 21, ""), Roi(0, 150, 100, 400, 250, ""),
      Roi(0, 779, 579, 21, 21, ""),
      CircleRoi(0, 400, 300, 20), CircleRoi(0, 100, 100, 10) }

\* Touch points: the corners of the sheet, its centre, points near the
\* regions and a point off the sheet's right edge.
RegionTouches ==
    { <<0, 0>>, <<2100, 2970>>, <<1050, 1485>>, <<263, 495>>, <<500, 700>>,
      <<880, 390>>, <<2101, 100>>, <<195, 195>> }

RegionDetectors == {"FixedROIDetector", "ROIDetector"}

\* Background images of a FixedROIDetector project; ROIDetector keeps none.
RegionBackgrounds(detector) ==
    IF detector = "FixedROIDetector" THEN {None, <<400, 600>>} ELSE {None}

RegionInit ==
    /\ DepthMapUnused
    /\ EditorUnused
    /\ ShadowUnused
    /\ PixelUnused
    /\ FixUnused
    /\ PlaneUnused
    /\ ArucoUnused
    /\ region_roi \in Regions
    /\ region_touch \in RegionTouches
    /\ region_detector \in RegionDetectors
    /\ region_background \in RegionBackgrounds(region_detector)
    /\ region_hit = None
    /\ region_printed = None
    /\ now = 0
    /\ audio_log = <<>>
    /\ RoiUnused
    /\ AudioUnused
    /\ DetUnused
    /\ AppUnused
    /\ StreamUnused
    /\ ResetUnused
    /\ LifeUnused
    /\ StoreUnused

\* roi['width'] and roi['height'] exist.
HasSides(roi) == {"width", "height"} \subseteq DOMAIN roi

\* ROIDetector.check_roi_touches, lines 259-269: the region in millimetres,
\* through the content area of the template.  x and width are quotients
\* over 800 * 2480, y and height over 600 * 3508, reduced by 200 and 24;
\* the comparison of lines 272-273 is InRect.
RoiDetectorRectMm(roi) ==
    [x |-> <<(ContentLeft * 40 + roi.x * (ContentWidth \div 20)) * 21, 40 * 248>>,
     y |-> <<(ContentTop * 25 + roi.y * (ContentHeight \div 24)) * A4Height, 25 * TemplateHeight>>,
     width |-> <<roi.width * (ContentWidth \div 20) * 21, 40 * 248>>,
     height |-> <<roi.height * (ContentHeight \div 24) * A4Height, 25 * TemplateHeight>>]

\* The millimetre rectangle the detector compares the touch point with.
DetectorRectMm(detector, roi, background) ==
    IF detector = "FixedROIDetector"
    THEN EditorRoiToA4Mm(roi, CalculateBackgroundScale(background))
    ELSE RoiDetectorRectMm(roi)

\* The hit test of one region for one touch point: the rectangle and the
\* verdict, or the KeyError of roi['width'] for a dict without sides.
HitTestResult(detector, roi, background, a4) ==
    IF HasSides(roi)
    THEN [rect |-> DetectorRectMm(detector, roi, background),
          verdict |-> IF InRect(DetectorRectMm(detector, roi, background), a4)
                      THEN "hit" ELSE "miss"]
    ELSE [rect |-> None, verdict |-> "KeyError"]

\* check_roi_touches reaches the region with the touch point.
HitTest ==
    /\ region_hit = None
    /\ region_hit' = HitTestResult(region_detector, region_roi, region_background, region_touch)
    /\ UNCHANGED <<region_roi, region_touch, region_detector, region_background, region_printed, notRegion>>

\* create_a4_template_with_rois, lines 74-77: the rectangle in template
\* pixels; int() truncates.
TemplateRect(roi) ==
    IF HasSides(roi)
    THEN [x |-> ContentLeft + (roi.x * ContentWidth) \div EditorCanvasW,
          y |-> ContentTop + (roi.y * ContentHeight) \div EditorCanvasH,
          width |-> (roi.width * ContentWidth) \div EditorCanvasW,
          height |-> (roi.height * ContentHeight) \div EditorCanvasH,
          error |-> "none"]
    ELSE [error |-> "KeyError"]

\* The editor exports the template with the region.
PrintTemplate ==
    /\ region_printed = None
    /\ region_printed' = TemplateRect(region_roi)
    /\ UNCHANGED <<region_roi, region_touch, region_detector, region_background, region_hit, notRegion>>

\* The user touches another point of the sheet.
NextTouch ==
    /\ region_hit # None
    /\ \E a4 \in RegionTouches \ {region_touch} : region_touch' = a4
    /\ region_hit' = None
    /\ UNCHANGED <<region_roi, region_detector, region_background, region_printed, notRegion>>

RegionNext ==
    \/ HitTest
    \/ PrintTemplate
    \/ NextTouch

SpecRegion == RegionInit /\ [][RegionNext]_vars

(***************************************************************************)
(* C16.  The hit test and the two region shapes.                           *)
(***************************************************************************)
\* The touch point lies within the bounds of the millimetre rectangle r,
\* the four edges included.
WithinBounds(r, a4) ==
    /\ r.x[1] * 10 <= a4[1] * r.x[2]
    /\ a4[1] * r.x[2] <= (r.x[1] + r.width[1]) * 10
    /\ r.y[1] * 10 <= a4[2] * r.y[2]
    /\ a4[2] * r.y[2] <= (r.y[1] + r.height[1]) * 10

\* The distance from the touch point to the centre (x, y) of the circle is
\* at most its radius.  The circle is taken to the sheet as the canvas is,
\* 210/800 mm per pixel across and 297/600 mm down, the radius across; the
\* lengths are in 1/400 mm.
WithinCircle(roi, a4) ==
    LET dx == Abs(5 * (8 * a4[1] - 21 * roi.x))
        dy == Abs(2 * (20 * a4[2] - 99 * roi.y))
        r == 105 * roi.radius
    IN  /\ dx <= r
        /\ dy <= r
        /\ dx * dx + dy * dy <= r * r

\* C16: the hit test supports both region shapes: a rectangle is hit when
\* the touch point is within its bounds, edges included; a circle (stored
\* with x, y and radius) is hit when the distance from the touch point to
\* its centre is at most the radius, and hit-testing a circle does not fail.
C16_HitTestBothShapes ==
    region_hit # None =>
        IF "radius" \in DOMAIN region_roi
        THEN /\ region_hit.verdict \in {"hit", "miss"}
             /\ (region_hit.verdict = "hit") <=> WithinCircle(region_roi, region_touch)
        ELSE /\ region_hit.verdict \in {"hit", "miss"}
             /\ (region_hit.verdict = "hit") <=> WithinBounds(region_hit.rect, region_touch)

\* C16 for rectangles: the hit test of a region with sides does not fail
\* and reports a hit exactly for the points within the bounds of the
\* rectangle it computed, edges included.
C16_RectangleHitTest ==
    (region_hit # None /\ HasSides(region_roi)) =>
        /\ region_hit.verdict \in {"hit", "miss"}
        /\ (region_hit.verdict = "hit") <=> WithinBounds(region_hit.rect, region_touch)

\* A touch on the corner of the whole-canvas rectangle, where two edges
\* meet, is a hit.
C16_Witness ==
    /\ region_hit # None
    /\ region_roi = Roi(0, 0, 0, 800, 600, "")
    /\ region_touch = <<2100, 2970>>
    /\ region_detector = "FixedROIDetector"
    /\ region_background = None
    /\ region_hit.verdict = "hit"

(***************************************************************************)
(* C17.  The rectangle the detector tests and the rectangle printed.       *)
(***************************************************************************)
\* The quotient q (millimetres) and p template pixels of mm/px millimetres
\* each differ by less than one template pixel.
WithinOnePixel(q, p, mm, px) ==
    \E l \in {Quot(q[1], q[2])} :
      \E g \in {GCD(l[2], px)} :
        Abs(l[1] * (px \div g) - p * mm * (l[2] \div g)) < mm * (l[2] \div g)

\* The millimetre rectangle r is the printed rectangle, converted at
\* 210/2480 and 297/3508 mm per pixel, up to one template pixel per field.
IsPrintedRect(r, printed) ==
    /\ WithinOnePixel(r.x, printed.x, A4Width, TemplateWidth)
    /\ WithinOnePixel(r.width, printed.width, A4Width, TemplateWidth)
    /\ WithinOnePixel(r.y, printed.y, A4Height, TemplateHeight)
    /\ WithinOnePixel(r.height, printed.height, A4Height, TemplateHeight)

\* The region has been hit-tested and printed.
TestedAndPrinted == region_hit # None /\ region_printed # None /\ HasSides(region_roi)

\* C17: for every rectangular ROI of the 800x600 canvas the millimetre
\* rectangle the detector hit-tests is the rectangle that
\* create_a4_template_with_rois prints for it, up to the truncation of one
\* template pixel: detector and export use the same scale and offset.
C17_DetectorTestsPrintedRect ==
    TestedAndPrinted => IsPrintedRect(region_hit.rect, region_printed)

\* C17 for ROIDetector, which maps through the content area of the template.
C17_RoiDetectorTestsPrintedRect ==
    (TestedAndPrinted /\ region_detector = "ROIDetector")
        => IsPrintedRect(region_hit.rect, region_printed)

\* A region whose printed corner was truncated (333 * 2020 / 800 = 840.825).
C17_Witness ==
    /\ TestedAndPrinted
    /\ region_detector = "ROIDetector"
    /\ region_roi.x = 333
    /\ region_printed.x = ContentLeft + 840

(***************************************************************************)
(* detect_aruco_markers (depth_detector.py 112-133, the same function in   *)
(* test/minimal/detector.py 29-50).  cv2.aruco.detectMarkers reports one   *)
(* id per marker it finds in the image: an id occurs as often as markers   *)
(* with that id are in view.  Detection i has its centre at <<i, i>>.      *)
(***************************************************************************)
\* The detections in one frame.
MaxDetections == 4

notAruco == <<now, audio_log, roiVars, audioVars, detVars, appVars, streamVars, resetVars, lifeVars, storeVars, regionVars, planeVars, fixVars, pixelVars, shadowVars, editorVars, mapVars>>

\* The ids of the board.
BoardIds == {0, 1, 2, 3}

\* Ids of the 4x4 dictionary seen in these runs: the board's and one other.
SeenIds == BoardIds \cup {7}

\* ids.flatten() of the frames of these runs (ids is None: no detection).
IdLists == UNION {[1..n -> SeenIds] : n \in 0..MaxDetections}

\* The loop of lines 122-126 over the detections from..Len(ids): the list
\* detected_markers and the dict marker_positions.
RECURSIVE MarkerLoop(_, _, _, _)
MarkerLoop(ids, i, detected, positions) ==
    IF i > Len(ids) THEN [detected_markers |-> detected, marker_positions |-> positions]
    ELSE IF ids[i] \in BoardIds
         THEN MarkerLoop(ids, i + 1, Append(detected, ids[i]),
                         [k \in DOMAIN positions \cup {ids[i]} |->
                             IF k = ids[i] THEN <<i, i>> ELSE positions[k]])
         ELSE MarkerLoop(ids, i + 1, detected, positions)

\* board_detected counted over the keys of marker_positions.
BoardOfPositions(loop) == Cardinality(DOMAIN loop.marker_positions) >= 3

\* board_detected = len(detected_markers) >= 3
BoardOfList(loop) == Len(loop.detected_markers) >= 3

\* detect_aruco_markers(image)
DetectArucoMarkers(ids) ==
    \* the one-element set binds the result of the loop
    CHOOSE r \in { [board_detected |-> BoardOfList(loop),
                    marker_positions |-> loop.marker_positions,
                    detected_markers |-> loop.detected_markers] :
                   loop \in {MarkerLoop(ids, 1, <<>>, <<>>)} } : TRUE

ArucoInit ==
    /\ DepthMapUnused
    /\ EditorUnused
    /\ ShadowUnused
    /\ PixelUnused
    /\ FixUnused
    /\ PlaneUnused
    /\ aruco_ids \in IdLists
    /\ aruco_result = None
    /\ now = 0
    /\ audio_log = <<>>
    /\ RoiUnused
    /\ AudioUnused
    /\ DetUnused
    /\ AppUnused
    /\ StreamUnused
    /\ ResetUnused
    /\ LifeUnused
    /\ StoreUnused
    /\ RegionUnused

\* The frame loop calls detect_aruco_markers on the frame.
DetectMarkers ==
    /\ aruco_result = None
    /\ aruco_result' = DetectArucoMarkers(aruco_ids)
    /\ UNCHANGED <<aruco_ids, notAruco>>

ArucoNext == DetectMarkers

SpecAruco == ArucoInit /\ [][ArucoNext]_vars

(***************************************************************************)
(* C18.  board_detected.                                                   *)
(***************************************************************************)
\* The distinct ids of the board among the detections.
DistinctBoardIds(ids) == {ids[i] : i \in 1..Len(ids)} \cap BoardIds

\* No id of the board was detected twice.
NoRepeatedBoardId(ids) ==
    \A i, j \in 1..Len(ids) : (ids[i] = ids[j] /\ ids[i] \in BoardIds) => i = j

\* C18: board_detected is true if and only if at least 3 distinct ids from
\* {0,1,2,3} were detected in the frame; other ids and repeated detections
\* of one id do not count towards the 3.
C18_BoardIffThreeDistinct ==
    aruco_result # None =>
        (aruco_result.board_detected <=> Cardinality(DistinctBoardIds(aruco_ids)) >= 3)

\* C18 for frames that show no board id twice: board_detected is true if
\* and only if at least 3 distinct board ids were detected, whatever other
\* ids are in the frame.
C18_BoardIffThreeWithoutRepeats ==
    (aruco_result # None /\ NoRepeatedBoardId(aruco_ids)) =>
        (aruco_result.board_detected <=> Cardinality(DistinctBoardIds(aruco_ids)) >= 3)

\* Two board ids, another id and a repeated other id: no board.
C18_Witness ==
    /\ aruco_result # None
    /\ aruco_ids = <<0, 7, 1, 7>>
    /\ ~aruco_result.board_detected

(***************************************************************************)
(* The plane calibrators with a cap on the sample count:                   *)
(* ROIDetector.calibrate_plane (test/minimal/detector_with_roi.py 201-226) *)
(* and A4DepthStreamDetector.calibrate_paper_depth (depth_detector.py      *)
(* 164-196) with the result generate_frames publishes, next to             *)
(* DepthCalibrationDetector.calibrate_simple_plane (test/app.py 70-96),    *)
(* which has no cap.  A frame is the                                       *)
(* dict marker id -> raw depth around the marker, 0 where the marker has   *)
(* no valid depth sample (outside the depth image or no pixel > 0).        *)
(***************************************************************************)
\* Frames handed to one detector in a run.
MaxPlaneFrames == 33

\* self.calibration_count >= 20
RoiCalibratedAt == 20

notPlane == <<now, audio_log, roiVars, audioVars, detVars, appVars, streamVars, resetVars, lifeVars, storeVars, regionVars, arucoVars, fixVars, pixelVars, shadowVars, editorVars, mapVars>>

PlaneClasses == {"ROIDetector", "A4DepthStreamDetector", "DepthCalibrationDetector"}

\* Raw depths of the sheet in the scenes of these runs.
PlaneSceneDepths == {450, 1000}

\* The frames of a scene: four markers; three; four, two of them without a
\* valid depth; three, one of them without; two; none.
PlaneFrames(raw) ==
    { FourMarkers(raw),
      [i \in 0..2 |-> raw],
      [i \in 0..3 |-> IF i < 2 THEN raw ELSE 0],
      [i \in 0..2 |-> IF i < 2 THEN raw ELSE 0],
      [i \in 0..1 |-> raw],
      [i \in {} |-> raw] }

\* What a calibrate call leaves: the fields of the detector and the value
\* returned.
PlaneOutcome(state, value) == [state |-> state, returned |-> value]

\* alpha = 0.1
RoiAlpha == FDivNat(1, 10)

\* alpha * current_plane_depth + (1 - alpha) * self.plane_depth
RoiSmoothPlane(cur, plane) ==
    FAdd(FMul(RoiAlpha, cur), FMul(FSub(FromNat(1), RoiAlpha), plane))

\* min(self.calibration_count + 1, 30)
CappedCount(count) == IF count + 1 < MaxCalibrationFrames THEN count + 1 ELSE MaxCalibrationFrames

\* The update of calibrate_plane with the median cur of depths.
RoiAcceptPlane(cur, state) ==
    [plane |-> IF state.plane = None THEN cur ELSE RoiSmoothPlane(cur, state.plane),
     count |-> CappedCount(state.count),
     calibrated |-> state.calibrated \/ CappedCount(state.count) >= RoiCalibratedAt]

\* ROIDetector.calibrate_plane(marker_positions, depth_image, ...)
CalibratePlane(frame, state) ==
    IF Cardinality(DOMAIN frame) < 3 THEN PlaneOutcome(state, "False")
    ELSE IF Cardinality(MarkersInDepths(frame)) >= 3
         THEN PlaneOutcome(RoiAcceptPlane(MedianOfDepths(SortedRaws(frame, MarkersInDepths(frame))), state), "True")
         ELSE PlaneOutcome(state, "False")

\* depth_values of calibrate_paper_depth, each value doubled
FrameValues2(frame) == [i \in MarkersInDepths(frame) |-> 2 * frame[i]]

\* calibrate_paper_depth without the test of the number of marker positions
CalibratePaperDepthUnguarded(frame, state) ==
    PlaneOutcome(CalibrateValues(FrameValues2(frame), state.ref, state.frames), "None")

\* A4DepthStreamDetector.calibrate_paper_depth(depth_data, marker_positions):
\* every path leaves the function without a value.
CalibratePaperDepthCall(frame, state) ==
    IF Cardinality(DOMAIN frame) < 3 THEN PlaneOutcome(state, "None")
    ELSE PlaneOutcome(CalibrateValues(FrameValues2(frame), state.ref, state.frames), "None")

\* "calibration_progress": self.calibration_frames / self.max_calibration_frames
CalibrationProgress(state) == <<state.frames, MaxCalibrationFrames>>

\* board_detected of a frame with these marker positions: true with three
\* positions; with fewer positions true when markers of the board are in
\* view more than once.
BoardFlags(frame) ==
    IF Cardinality(DOMAIN frame) >= 3 THEN {TRUE}
    ELSE IF DOMAIN frame = {} THEN {FALSE} ELSE {TRUE, FALSE}

PlaneInit ==
    /\ DepthMapUnused
    /\ EditorUnused
    /\ ShadowUnused
    /\ PixelUnused
    /\ FixUnused
    /\ plane_class \in PlaneClasses
    /\ plane_state = IF plane_class = "A4DepthStreamDetector"
                     THEN CalibState(None, 0)
                     ELSE [plane |-> None, count |-> 0, calibrated |-> FALSE]
    /\ plane_return = "no call"
    /\ plane_frame = None
    /\ plane_progress = None
    /\ plane_scene \in PlaneSceneDepths
    /\ plane_frames = 0
    /\ now = 0
    /\ audio_log = <<>>
    /\ RoiUnused
    /\ AppUnused
    /\ AudioUnused
    /\ DetUnused
    /\ StreamUnused
    /\ ResetUnused
    /\ LifeUnused
    /\ StoreUnused
    /\ RegionUnused
    /\ ArucoUnused

\* ROIDetector.update_frame on a frame in which detectMarkers found
\* something: the call of calibrate_plane.
UpdateFrameCalibrate(frame) ==
    /\ plane_class = "ROIDetector"
    /\ plane_frames < MaxPlaneFrames
    /\ \E out \in {CalibratePlane(frame, plane_state)} :
         /\ plane_state' = out.state
         /\ plane_return' = out.returned
    /\ plane_frame' = frame
    /\ plane_frames' = plane_frames + 1
    /\ UNCHANGED <<plane_class, plane_progress, plane_scene, notPlane>>

\* One iteration of A4DepthStreamDetector.generate_frames on a frame with
\* the board detected: calibrate_paper_depth and the published progress.
GenerateFramesCalibrate(frame) ==
    /\ plane_class = "A4DepthStreamDetector"
    /\ plane_frames < MaxPlaneFrames
    /\ TRUE \in BoardFlags(frame)
    /\ \E out \in {CalibratePaperDepthCall(frame, plane_state)} :
         /\ plane_state' = out.state
         /\ plane_return' = out.returned
         /\ plane_progress' = CalibrationProgress(out.state)
    /\ plane_frame' = frame
    /\ plane_frames' = plane_frames + 1
    /\ UNCHANGED <<plane_class, plane_scene, notPlane>>

\* One iteration of generate_frames on a frame without the board: no
\* calibrate call, the progress is published.
GenerateFramesNoBoard(frame) ==
    /\ plane_class = "A4DepthStreamDetector"
    /\ plane_frames < MaxPlaneFrames
    /\ FALSE \in BoardFlags(frame)
    /\ plane_progress' = CalibrationProgress(plane_state)
    /\ plane_return' = "no call"
    /\ plane_frame' = frame
    /\ plane_frames' = plane_frames + 1
    /\ UNCHANGED <<plane_class, plane_state, plane_scene, notPlane>>

\* The value calibrate_simple_plane returned in detect_aruco_markers.
AppReturned(frame, cal) ==
    IF DOMAIN frame = {} THEN "no call" ELSE IF cal.accepted THEN "True" ELSE "False"

\* One iteration of DepthCalibrationDetector.generate_frames on the frame:
\* detect_aruco_markers with its calibrate_simple_plane call, and the
\* published calibration_progress.
AppFrameCalibrate(frame) ==
    /\ plane_class = "DepthCalibrationDetector"
    /\ plane_frames < MaxPlaneFrames
    /\ \E cal \in {AppFrameCalibration(frame, plane_state.plane, plane_state.count, plane_state.calibrated)} :
         /\ plane_state' = [plane |-> cal.plane, count |-> cal.count, calibrated |-> cal.calibrated]
         /\ plane_return' = AppReturned(frame, cal)
         /\ plane_progress' = <<AppResults(cal, frame).calibration_progress, 1>>
    /\ plane_frame' = frame
    /\ plane_frames' = plane_frames + 1
    /\ UNCHANGED <<plane_class, plane_scene, notPlane>>

PlaneNext ==
    \E frame \in PlaneFrames(plane_scene) :
        \/ AppFrameCalibrate(frame)
        \/ UpdateFrameCalibrate(frame)
        \/ GenerateFramesCalibrate(frame)
        \/ GenerateFramesNoBoard(frame)

SpecPlane == PlaneInit /\ [][PlaneNext]_vars

(***************************************************************************)
(* C19.  A calibrate call that is not accepted.                            *)
(***************************************************************************)
\* len(depths) >= 3 in calibrate_plane and calibrate_simple_plane,
\* len(depth_values) >= 2 in calibrate_paper_depth
RequiredDepths(class) == IF class = "A4DepthStreamDetector" THEN 2 ELSE 3

\* Fewer than 3 marker positions, or fewer markers with a valid depth sample
\* than required.
TooFewMarkers(class, frame) ==
    \/ Cardinality(DOMAIN frame) < 3
    \/ Cardinality(MarkersInDepths(frame)) < RequiredDepths(class)

\* The step is a calibrate call with too few markers.
RejectedCall ==
    /\ plane_frames' # plane_frames
    /\ plane_return' # "no call"
    /\ TooFewMarkers(plane_class, plane_frame')

SampleCount(class, state) ==
    IF class = "A4DepthStreamDetector" THEN state.frames ELSE state.count

CountInRange ==
    0 <= SampleCount(plane_class, plane_state) /\ SampleCount(plane_class, plane_state) <= MaxCalibrationFrames

\* The published calibration_progress lies in [0, 1].
ProgressInRange ==
    plane_progress = None \/ (0 <= plane_progress[1] /\ plane_progress[1] <= plane_progress[2])

\* The step is a calibrate call on a frame with enough markers.
AcceptedCall ==
    /\ plane_frames' # plane_frames
    /\ plane_return' # "no call"
    /\ ~TooFewMarkers(plane_class, plane_frame')

\* The count changes by one at most, in an accepted frame only, and an
\* accepted frame below the cap adds one.
GrowsByOne ==
    /\ SampleCount(plane_class, plane_state') # SampleCount(plane_class, plane_state) =>
          (AcceptedCall /\ SampleCount(plane_class, plane_state') = SampleCount(plane_class, plane_state) + 1)
    /\ (AcceptedCall /\ SampleCount(plane_class, plane_state) < MaxCalibrationFrames) =>
          SampleCount(plane_class, plane_state') = SampleCount(plane_class, plane_state) + 1

\* C20: in every reachable state 0 <= sample_count <= 30, the count only
\* grows by one per accepted frame, and the published calibration progress
\* lies in [0, 1].
C20_CountCappedProgressInUnit ==
    [](CountInRange /\ ProgressInRange) /\ [][GrowsByOne]_vars

\* C20 for the calibrators with the cap, calibrate_plane and
\* calibrate_paper_depth: 0 <= sample_count <= 30, the count only grows by
\* one per accepted frame, and the published progress lies in [0, 1].
C20_CappedCalibrators ==
    /\ [](plane_class # "DepthCalibrationDetector" => (CountInRange /\ ProgressInRange))
    /\ [][plane_class # "DepthCalibrationDetector" => GrowsByOne]_vars

\* calibrate_paper_depth accepted a frame with the count at the cap.
C20_Witness ==
    /\ plane_class = "A4DepthStreamDetector"
    /\ plane_frames > MaxCalibrationFrames
    /\ plane_state.frames = MaxCalibrationFrames
    /\ plane_progress = <<MaxCalibrationFrames, MaxCalibrationFrames>>
    /\ plane_frame = FourMarkers(plane_scene)

(***************************************************************************)
(* FixedROIDetector.update_frame (test/minimal/fixed_roi_detector.py       *)
(* 387-470): marker detection, calibrate_plane, the classification of the  *)
(* fingertips and check_roi_touches on the fingertips classified TOUCH.    *)
(* A frame is the dict of marker positions and the list of fingertips,     *)
(* each a pixel with the raw depth get_depth_at_point finds around it (0:  *)
(* no valid depth); the markers lie on the sheet at FixSheetDepth.         *)
(***************************************************************************)
\* Frames of one run.
MaxFixFrames == 2

\* distance < 25 and distance < 50
FixTouchMm == 25

FixHoverMm == 50

\* Raw depth of the sheet: half a metre.
FixSheetDepth == MmPerMetre \div 2

\* x <= y for floats x, y >= 0
FLeq(x, y) ==
    \E a \in {x}, b \in {y} :
        BigLeq(Aligned(a, Min2(a.e, b.e)), Aligned(b, Min2(a.e, b.e)))

\* abs(x - y)
FAbsDiff(x, y) == IF FLeq(y, x) THEN FSub(x, y) ELSE FSub(y, x)

\* distance = abs(finger_depth - self.plane_depth) * 1000
FixDistance(finger_depth, plane) == FMul(FAbsDiff(finger_depth, plane), FromNat(MmPerMetre))

\* The status of a fingertip with the depth finger_depth; "" when nothing
\* is drawn for it.
StatusOfDistance(distance) ==
    IF ~FLeq(FromNat(FixTouchMm), distance) THEN "TOUCH"
    ELSE IF ~FLeq(FromNat(FixHoverMm), distance) THEN "HOVER" ELSE "FAR"

FingerStatus(raw, plane) ==
    IF GetDepthAtPoint(raw) = None THEN ""
    ELSE StatusOfDistance(FixDistance(GetDepthAtPoint(raw), plane))

\* The statuses of the fingertips of the frame: hands are looked for when
\* is_calibrated only.
FingerStatuses(fingers, state) ==
    IF ~state.calibrated THEN [k \in DOMAIN fingers |-> ""]
    ELSE [k \in DOMAIN fingers |-> FingerStatus(fingers[k].raw, state.plane)]

\* The pixels whose status is in the set wanted, in the order of the hands.
RECURSIVE PointsWithStatus(_, _, _, _)
PointsWithStatus(fingers, status, wanted, k) ==
    IF k > Len(fingers) THEN <<>>
    ELSE IF status[k] \in wanted
         THEN <<fingers[k].pos>> \o PointsWithStatus(fingers, status, wanted, k + 1)
         ELSE PointsWithStatus(fingers, status, wanted, k + 1)

\* touch_points with the hovering fingertips appended as well
TouchAndHoverPoints(fingers, status) == PointsWithStatus(fingers, status, {"TOUCH", "HOVER"}, 1)

\* touch_points
TouchPoints(fingers, status) == PointsWithStatus(fingers, status, {"TOUCH"}, 1)

\* The marker depths calibrate_plane samples in the frame.
MarkerDepths(positions) == [i \in DOMAIN positions |-> FixSheetDepth]

\* The detector after n frames with four markers, from the state st: the
\* runs begin one frame before is_calibrated is set, and with it set.
RECURSIVE AfterFrames(_, _)
AfterFrames(st, n) ==
    IF n = 0 THEN st
    ELSE The({AfterFrames(x, n - 1) : x \in {CalibratePlane(FourMarkers(FixSheetDepth), st).state}})

\* plane_depth, calibration_count, is_calibrated after __init__
FixConstructed == [plane |-> None, count |-> 0, calibrated |-> FALSE]

\* Marker positions of the frames: the sheet inside the image, with four,
\* three, two and no marker found.
FixMarkerDicts ==
    { (0 :> <<1, 1>>) @@ (1 :> <<3, 1>>) @@ (2 :> <<3, 3>>) @@ (3 :> <<1, 3>>),
      (0 :> <<1, 1>>) @@ (1 :> <<3, 1>>) @@ (2 :> <<3, 3>>),
      (0 :> <<1, 1>>) @@ (3 :> <<1, 3>>),
      <<>> }

Finger(pos, raw) == [pos |-> pos, raw |-> raw]

\* Fingertips in the middle of the sheet: on the sheet, 10, 30 and 100 mm
\* above it, and without depth; fingertips on marker 3 and beside the
\* sheet, both at the depth of the sheet.
FixFingers ==
    { Finger(<<2, 2>>, r) :
        r \in {FixSheetDepth, FixSheetDepth - 10, FixSheetDepth - 30, FixSheetDepth - 100, 0} }
    \cup {Finger(<<1, 3>>, FixSheetDepth), Finger(<<0, 0>>, FixSheetDepth)}

\* The hands of a frame: none, one, or two of which one touches beside the
\* sheet or on the marker while the other hovers over the regions.
FixHands ==
    {<<>>} \cup {<<f>> : f \in FixFingers}
    \cup { <<Finger(<<2, 2>>, FixSheetDepth - 30), Finger(<<0, 0>>, FixSheetDepth)>>,
           <<Finger(<<1, 3>>, FixSheetDepth), Finger(<<2, 2>>, FixSheetDepth - 100)>> }

FixInit ==
    /\ DepthMapUnused
    /\ EditorUnused
    /\ ShadowUnused
    /\ PixelUnused
    /\ fix_state \in {AfterFrames(FixConstructed, n) : n \in {RoiCalibratedAt - 1, RoiCalibratedAt}}
    /\ fix_frame = None
    /\ fix_status = <<>>
    /\ fix_frames = 0
    /\ project_data \in Projects \cup {NoProject}
    /\ audio_cooldowns = EmptyDict
    /\ audio_log = <<>>
    /\ touched_rois = <<>>
    /\ call_time = -1
    /\ now = 0
    /\ AudioUnused
    /\ DetUnused
    /\ AppUnused
    /\ StreamUnused
    /\ ResetUnused
    /\ LifeUnused
    /\ StoreUnused
    /\ RegionUnused
    /\ ArucoUnused
    /\ PlaneUnused

notFix == <<audioVars, detVars, appVars, streamVars, resetVars, lifeVars, storeVars, regionVars, arucoVars, planeVars, pixelVars, shadowVars, editorVars, mapVars>>

\* time.time() advances between two timer ticks.
FixTick ==
    /\ now < MaxTime
    /\ now' = now + 1
    /\ UNCHANGED <<audio_log, roiVars, fixVars, notFix>>

\* update_frame on a frame: the marker positions and the hands in it.
UpdateFrame ==
    /\ fix_frames < MaxFixFrames
    /\ \E positions \in FixMarkerDicts :
        \E st \in {CalibratePlane(MarkerDepths(positions), fix_state).state} :
         \E fingers \in FixHands :
          \E status \in {FingerStatuses(fingers, st)} :
           \E r \in {CheckRoiTouchesResult(TouchPoints(fingers, status), positions,
                                           project_data, audio_cooldowns, audio_log, now)} :
            /\ fix_state' = st
            /\ fix_status' = status
            /\ touched_rois' = r.touched
            /\ audio_cooldowns' = r.cd
            /\ audio_log' = r.log
            /\ fix_frame' = [positions |-> positions, fingers |-> fingers]
    /\ fix_frames' = fix_frames + 1
    /\ call_time' = now
    /\ UNCHANGED <<now, project_data, notFix>>

FixNext == FixTick \/ UpdateFrame

SpecFix == FixInit /\ [][FixNext]_vars

(***************************************************************************)
(* C21.  What it takes to trigger the audio of a region.                   *)
(***************************************************************************)
\* The point, in tenths of a millimetre, lies on the sheet.
OnSheet(a4) ==
    /\ 0 <= a4[1] /\ a4[1] <= 10 * A4Width
    /\ 0 <= a4[2] /\ a4[2] <= 10 * A4Height

\* The fingertip of the frame was classified TOUCH, is mapped to a point on
\* the sheet, and the point lies in the rectangle of the region roi_id.
TouchesRegion(frame, status, project, k, roi_id) ==
    /\ status[k] = "TOUCH"
    /\ \E a4 \in {PixelToA4(frame.fingers[k].pos, frame.positions, RoiMarginMm)} :
        /\ a4 # None
        /\ OnSheet(a4)
        /\ \E j \in DOMAIN project.rois :
            /\ project.rois[j].id = roi_id
            /\ RoiHit(project.rois[j], CalculateBackgroundScale(project.background), a4)

\* The audio of region roi_id may be triggered in the frame.
TriggerJustified(frame, status, project, roi_id) ==
    /\ Cardinality(DOMAIN frame.positions) >= 3
    /\ \E k \in DOMAIN frame.fingers : TouchesRegion(frame, status, project, k, roi_id)

\* C21: a region's audio is triggered in a frame only if in that frame at
\* least 3 markers are visible and a fingertip was classified touch, was
\* mapped by pixel_to_a4_coordinate to a point on the sheet, and that point
\* lies in the region's rectangle; no other fingertip triggers a region.
C21_TriggerNeedsTouchInRegion ==
    [][/\ Len(audio_log') >= Len(audio_log)
       /\ SubSeq(audio_log', 1, Len(audio_log)) = audio_log
       /\ \A i \in (Len(audio_log) + 1)..Len(audio_log') :
            TriggerJustified(fix_frame', fix_status', project_data, audio_log'[i][1])]_vars

\* The second frame of a run triggered a region, with a touching fingertip
\* in it.
C21_Witness ==
    /\ fix_frames = 2
    /\ audio_log # <<>>
    /\ audio_log[Len(audio_log)][2] = call_time
    /\ \E k \in DOMAIN fix_status : fix_status[k] = "TOUCH"
    /\ Cardinality(DOMAIN fix_frame.positions) = 3

(***************************************************************************)
(* C22.  When a fingertip is classified.                                   *)
(***************************************************************************)
\* A fingertip of the last frame was classified.
FingertipClassified == \E k \in DOMAIN fix_status : fix_status[k] \in {"TOUCH", "HOVER", "FAR"}

\* The board was detected in the last frame.
BoardInFrame == Cardinality(DOMAIN fix_frame.positions) >= 3

\* The sample count has reached the threshold.
CountAtThreshold == fix_state.count >= RoiCalibratedAt

\* C22: the stages of a frame run in the order locate fiducials, calibrate
\* plane, detect fingertips, classify contact, map coordinates; a fingertip
\* is classified (touch, hover or far) only in a frame where the board is
\* detected and the calibration sample count has reached the threshold.
C22_ClassifiedOnlyWithBoard == FingertipClassified => (BoardInFrame /\ CountAtThreshold)

\* C22 without the board: a fingertip is classified only in a frame after
\* whose calibrate stage the sample count has reached the threshold, be the
\* board in the frame or not.
C22_ClassifiedOnlyAtThreshold == FingertipClassified => (fix_state.calibrated /\ CountAtThreshold)

\* The frame that brought the count to the threshold had its fingertip
\* classified: calibrate ran before classify.
C22_Witness ==
    /\ fix_frames = 1
    /\ fix_state.count = RoiCalibratedAt
    /\ fix_status = <<"HOVER">>
    /\ BoardInFrame

(***************************************************************************)
(* C23.  The touched list and the cooldown window.                         *)
(***************************************************************************)
\* The region fired at most RoiCooldownSeconds before the clock value t.
InCooldownWindow(cooldowns, roi_id, t) ==
    roi_id \in DOMAIN cooldowns /\ t - cooldowns[roi_id] <= CooldownTicks

\* The entries for the region among those added to the play log.
PlaysAdded(log, log2, roi_id) ==
    {i \in (Len(log) + 1)..Len(log2) : log2[i][1] = roi_id}

\* C23: check_roi_touches returns every region that a touch point lies in,
\* inside the cooldown window or not, with an audio file or not; a hit
\* inside the window is in the returned list, plays no audio and leaves the
\* recorded trigger time of the region unchanged.
C23_TouchedWhateverTheCooldown ==
    [][fix_frames' # fix_frames =>
        \A j \in DOMAIN project_data.rois :
          \E roi \in {project_data.rois[j]} :
            /\ TriggerJustified(fix_frame', fix_status', project_data, roi.id)
                  <=> (\E t \in DOMAIN touched_rois' : touched_rois'[t] = roi)
            /\ (TriggerJustified(fix_frame', fix_status', project_data, roi.id)
                   /\ InCooldownWindow(audio_cooldowns, roi.id, now))
                  => /\ PlaysAdded(audio_log, audio_log', roi.id) = {}
                     /\ audio_cooldowns'[roi.id] = audio_cooldowns[roi.id]]_vars

\* The second frame hit a region half a second after the first had played
\* it: the region is in the touched list and nothing was played.
C23_Witness ==
    /\ fix_frames = 2
    /\ Len(audio_log) = 1
    /\ audio_log[1][2] < call_time
    /\ call_time - audio_log[1][2] <= CooldownTicks
    /\ \E t \in DOMAIN touched_rois : touched_rois[t].id = audio_log[1][1]
    /\ \E t \in DOMAIN touched_rois : touched_rois[t].audio_file = ""

(***************************************************************************)
(* pixel_to_a4_coordinate as a call that returns or raises:                *)
(* A4WebStreamDetector (test/minimal/detector.py 135-173) calls OpenCV     *)
(* unguarded, A4DepthStreamDetector (depth_detector.py 257-298) inside     *)
(* try/except.  cv2.getAffineTransform and cv2.getPerspectiveTransform     *)
(* solve their linear system with cv::solve, which reports a singular      *)
(* system by its return value and leaves the zero matrix; it throws        *)
(* nothing.                                                                *)
(***************************************************************************)
\* An exception left the call.
Raised == <<"raised">>

notPixel == <<now, audio_log, roiVars, audioVars, detVars, appVars, streamVars, resetVars, lifeVars, storeVars, regionVars, arucoVars, planeVars, fixVars, shadowVars, editorVars, mapVars>>

PixelClasses == {"A4WebStreamDetector", "A4DepthStreamDetector"}

\* Three or four markers reported at one pixel, or two of three at one.
CoincidentDicts ==
    { [i \in 0..3 |-> <<1, 1>>], [i \in 0..2 |-> <<2, 2>>],
      (0 :> <<1, 1>>) @@ (1 :> <<1, 1>>) @@ (2 :> <<3, 3>>),
      (0 :> <<0, 0>>) @@ (1 :> <<GridMax, 0>>) @@ (2 :> <<GridMax, 0>>) @@ (3 :> <<0, GridMax>>) }

\* The correspondences of the call make the linear system singular.
SingularSystem(positions, margin) ==
    \E ids \in {SortedIds(DOMAIN positions \cap (0..3))} :
      \E src \in {[i \in 1..Len(ids) |-> positions[ids[i]]]}, dst \in {[i \in 1..Len(ids) |-> MarkerRefs(margin)[ids[i]]]} :
        \/ Len(ids) = 3 /\ Det3(src[1], src[2], src[3]) = 0
        \/ Len(ids) = 4 /\ PerspectiveSingular(src, dst)

\* The transform with a solver that raises on a singular system, as
\* numpy.linalg.solve does.
RaisingTransform(pixel_pos, positions, margin) ==
    IF SingularSystem(positions, margin) THEN Raised
    ELSE TransformPoint(pixel_pos, positions, margin)

\* cv2.getAffineTransform / cv2.getPerspectiveTransform and the product
\* with the pixel: the transformed point, None with fewer than 3 markers.
CvTransform(pixel_pos, positions, margin) == TransformPoint(pixel_pos, positions, margin)

\* The part of pixel_to_a4_coordinate after the transform: an exception is
\* caught and printed by A4DepthStreamDetector only.
AfterTransform(class, h) ==
    IF h = Raised THEN (IF class = "A4DepthStreamDetector" THEN None ELSE Raised)
    ELSE A4FromHom(h)

\* pixel_to_a4_coordinate(pixel_pos, marker_positions) of the class.
PixelToA4Coordinate(class, pixel_pos, positions) ==
    AfterTransform(class, CvTransform(pixel_pos, positions, DetMarginMm))

PixelInit ==
    /\ DepthMapUnused
    /\ EditorUnused
    /\ ShadowUnused
    /\ px_class \in PixelClasses
    /\ px_positions \in MapMarkerDicts \cup CoincidentDicts
    /\ px_pixel = None
    /\ px_result = None
    /\ now = 0
    /\ audio_log = <<>>
    /\ RoiUnused
    /\ AudioUnused
    /\ DetUnused
    /\ AppUnused
    /\ StreamUnused
    /\ ResetUnused
    /\ LifeUnused
    /\ StoreUnused
    /\ RegionUnused
    /\ ArucoUnused
    /\ PlaneUnused
    /\ FixUnused

\* The call pixel_to_a4_coordinate(p, marker_positions).
CallPixelToA4(p) ==
    /\ px_pixel = None
    /\ px_pixel' = p
    /\ px_result' = PixelToA4Coordinate(px_class, p, px_positions)
    /\ UNCHANGED <<px_class, px_positions, notPixel>>

PixelNext == \E p \in FingerPositions : CallPixelToA4(p)

SpecPixel == PixelInit /\ [][PixelNext]_vars

(***************************************************************************)
(* C24.  pixel_to_a4_coordinate never raises.                              *)
(***************************************************************************)
\* The markers of the call are degenerate: two at one pixel, or three on
\* one line.
DegenerateMarkers(positions) ==
    \/ \E i, j \in DOMAIN positions : i # j /\ positions[i] = positions[j]
    \/ \E i, j, k \in DOMAIN positions :
         i < j /\ j < k /\ Det3(positions[i], positions[j], positions[k]) = 0

MaxShadowFrames == 2

\* radius = 30
ShadowRadius == 30

\* len(paper_pixels) < 10
MinPaperPixels == 10

\* shadow_threshold = 180
ShadowThreshold == 180

notShadow == <<now, audio_log, roiVars, audioVars, detVars, appVars, streamVars, resetVars, lifeVars, storeVars, regionVars, arucoVars, planeVars, fixVars, pixelVars, editorVars, mapVars>>

\* gray_roi at the pixel q
Brightness(image, q) == IF q[1] < image.split THEN image.left ELSE image.right

\* The pixels of image[roi_y1:roi_y2, roi_x1:roi_x2] around the fingertip.
ShadowWindow(p) ==
    {q \in FramePixels :
        /\ p[1] - ShadowRadius <= q[1] /\ q[1] < p[1] + ShadowRadius
        /\ p[2] - ShadowRadius <= q[2] /\ q[2] < p[2] + ShadowRadius}

\* masked_roi[paper_roi > 0], as pixels
PaperPixels(mask, p) == ShadowWindow(p) \cap mask.pixels

RECURSIVE SumBrightness(_, _)
SumBrightness(image, S) ==
    IF S = {} THEN 0
    ELSE \* the one-element set binds the pixel chosen
         CHOOSE v \in {Brightness(image, q) + SumBrightness(image, S \ {q}) : q \in {CHOOSE x \in S : TRUE}} : TRUE

\* np.mean(paper_pixels) < shadow_threshold
ShadowOver(image, S) == SumBrightness(image, S) < ShadowThreshold * Cardinality(S)

\* detect_finger_shadow without the count of the paper pixels.
DetectFingerShadowAnyCount(image, p, mask) ==
    IF ~mask.present THEN FALSE
    ELSE ShadowOver(image, PaperPixels(mask, p))

\* detect_finger_shadow(image, finger_pos, paper_mask)
DetectFingerShadow(image, p, mask) ==
    IF ~mask.present THEN FALSE
    ELSE IF Cardinality(PaperPixels(mask, p)) < MinPaperPixels THEN FALSE
    ELSE ShadowOver(image, PaperPixels(mask, p))

\* The dict {"position": finger_pos, "a4_coord": a4_coord}; its length tells
\* it from a bare fingertip position.
TouchEntry(p, a4) == <<"dict", p, a4>>

\* The loop over hand_positions of generate_frames: touching_fingers.
RECURSIVE ShadowLoop(_, _, _, _, _)
ShadowLoop(fingers, hands, i, frame, mask) ==
    IF i > Len(hands) THEN fingers
    ELSE IF DetectFingerShadow(frame.image, hands[i], mask)
              /\ PixelToA4(hands[i], frame.positions, DetMarginMm) # None
         THEN ShadowLoop(Append(fingers, TouchEntry(hands[i], PixelToA4(hands[i], frame.positions, DetMarginMm))),
                         hands, i + 1, frame, mask)
         ELSE ShadowLoop(fingers, hands, i + 1, frame, mask)

\* touching_fingers of the frame
ShadowFingers(frame, mask) ==
    IF BoardDetected(frame.positions) /\ frame.hands # <<>> /\ mask.present
    THEN ShadowLoop(<<>>, frame.hands, 1, frame, mask)
    ELSE <<>>

\* self.detection_results with the literal "board": True of flask_topo.py.
ShadowResultsBoardTrue(frame, touching) ==
    [board |-> TRUE,
     hands |-> IF touching # <<>> THEN touching ELSE frame.hands,
     detected_markers |-> SortedIds(DOMAIN frame.positions)]

\* self.detection_results of the frame
ShadowResults(frame, touching) ==
    [board |-> BoardDetected(frame.positions),
     hands |-> IF touching # <<>> THEN touching ELSE frame.hands,
     detected_markers |-> SortedIds(DOMAIN frame.positions)]

\* Marker positions of the frames: the corners of the image (four, three
\* and two of them), and a small sheet in the middle of the image.
ShadowMarkerDicts ==
    RoiMarkerDicts \cup {(0 :> <<1, 1>>) @@ (1 :> <<3, 1>>) @@ (2 :> <<3, 3>>) @@ (3 :> <<1, 3>>)}

\* Images: bright, dark, and dark on the left half only.
ShadowImages ==
    { [split |-> 0, left |-> 100, right |-> 220],
      [split |-> 0, left |-> 100, right |-> 100],
      [split |-> 2, left |-> 100, right |-> 220] }

\* Fingertips: on the diagonal, in the corner of marker 3, beside the image.
ShadowHands == {<<>>, <<<<2, 2>>>>, <<<<0, GridMax>>>>, <<<<-1, 2>>>>, <<<<1, 3>>, <<3, 1>>>>}

ShadowFrames == [positions : ShadowMarkerDicts, image : ShadowImages, hands : ShadowHands]

\* The two copies of the class: test/minimal/detector.py, test/flask_topo.py.
ShadowClasses == {"A4WebStreamDetector", "flask_topo.A4WebStreamDetector"}

\* self.detection_results after __init__
ShadowInitialResults == [board |-> FALSE, hands |-> <<>>, detected_markers |-> <<>>]

ShadowInit ==
    /\ DepthMapUnused
    /\ EditorUnused
    /\ sh_class \in ShadowClasses
    /\ sh_frame = None
    /\ sh_results = ShadowInitialResults
    /\ sh_frames = 0
    /\ now = 0
    /\ audio_log = <<>>
    /\ RoiUnused
    /\ AudioUnused
    /\ DetUnused
    /\ AppUnused
    /\ StreamUnused
    /\ ResetUnused
    /\ LifeUnused
    /\ StoreUnused
    /\ RegionUnused
    /\ ArucoUnused
    /\ PlaneUnused
    /\ FixUnused
    /\ PixelUnused

\* flask_topo.py: self.detection_results after the frame, assigned under
\* "if touching_fingers:".
TopoResults(results, frame, touching) ==
    IF touching # <<>>
    THEN [board |-> TRUE, hands |-> touching, detected_markers |-> SortedIds(DOMAIN frame.positions)]
    ELSE results

\* One iteration of generate_frames of test/minimal/detector.py on the frame.
WebGenerateFrames(frame) ==
    /\ sh_class = "A4WebStreamDetector"
    /\ sh_frames < MaxShadowFrames
    /\ sh_results' = ShadowResults(frame, ShadowFingers(frame, CreatePaperMask(frame.positions)))
    /\ sh_frame' = frame
    /\ sh_frames' = sh_frames + 1
    /\ UNCHANGED <<notShadow, sh_class>>

\* One iteration of generate_frames of test/flask_topo.py on the frame.
TopoGenerateFrames(frame) ==
    /\ sh_class = "flask_topo.A4WebStreamDetector"
    /\ sh_frames < MaxShadowFrames
    /\ sh_results' = TopoResults(sh_results, frame, ShadowFingers(frame, CreatePaperMask(frame.positions)))
    /\ sh_frame' = frame
    /\ sh_frames' = sh_frames + 1
    /\ UNCHANGED <<notShadow, sh_class>>

ShadowNext == \E frame \in ShadowFrames : WebGenerateFrames(frame) \/ TopoGenerateFrames(frame)

SpecShadow == ShadowInit /\ [][ShadowNext]_vars

(***************************************************************************)
(* C25.  A fingertip off the mask in the shadow strategy.                  *)
(***************************************************************************)
\* An entry of the published hands with a coordinate.
HasCoordinate(hand) == Len(hand) = 3

\* The fingertips published with a coordinate.
PublishedTouches == {sh_results.hands[k][2] : k \in {j \in DOMAIN sh_results.hands : HasCoordinate(sh_results.hands[j])}}

\* The mask of the last frame.
FrameMask == IF sh_frames = 0 THEN NoMask ELSE CreatePaperMask(sh_frame.positions)

\* touching_fingers of the last frame
LastTouching == IF sh_frames = 0 THEN <<>> ELSE ShadowFingers(sh_frame, FrameMask)

\* The fingertips of the last frame that it published with a coordinate.
FrameTouches == {p \in PublishedTouches : \E j \in DOMAIN LastTouching : LastTouching[j][2] = p}

\* C25: in the shadow strategy a fingertip whose own pixel has mask value
\* zero is skipped: it is never reported as touching and never appears in
\* the result with a physical coordinate, whatever the brightness around it.
C25_OffMaskNeverTouching ==
    \A p \in FrameTouches : p \in FrameMask.pixels

\* C25 for the window in place of the pixel: a fingertip with fewer than 10
\* mask pixels within 30 pixels of it, or with a mean brightness of those
\* pixels of 180 or more, never appears in the result with a coordinate.
C25_NoPaperAroundNeverTouching ==
    \A p \in FrameTouches :
        /\ Cardinality(PaperPixels(FrameMask, p)) >= MinPaperPixels
        /\ \E q \in PaperPixels(FrameMask, p) : Brightness(sh_frame.image, q) < ShadowThreshold

\* A frame with the small sheet and a dark image published its fingertip
\* without a coordinate.
C25_Witness ==
    /\ sh_frames > 0
    /\ sh_frame.positions = (0 :> <<1, 1>>) @@ (1 :> <<3, 1>>) @@ (2 :> <<3, 3>>) @@ (3 :> <<1, 3>>)
    /\ sh_frame.image.right < ShadowThreshold
    /\ sh_frame.hands = <<<<2, 2>>>>
    /\ sh_results.hands = sh_frame.hands

(***************************************************************************)
(* C26.  The latest detection result describes the latest frame.           *)
(***************************************************************************)
\* The result describes the last frame: its board flag, and touch points
\* only of this frame.
DescribesLastFrame ==
    /\ sh_results.board = BoardDetected(sh_frame.positions)
    /\ \A k \in DOMAIN sh_results.hands :
          HasCoordinate(sh_results.hands[k]) =>
              \E j \in DOMAIN LastTouching : LastTouching[j] = sh_results.hands[k]

\* C26: after every processed frame the latest detection result describes
\* that frame: a frame with fewer than 3 markers is reported with board
\* false, and a frame without a touching fingertip reports no touch point
\* left over from an earlier frame.
C26_ResultDescribesFrame == sh_frames > 0 => DescribesLastFrame

\* C26 for the loop of test/minimal/detector.py, which assigns the result
\* in every frame.
C26_MinimalResultDescribesFrame ==
    (sh_frames > 0 /\ sh_class = "A4WebStreamDetector") => DescribesLastFrame

\* The second frame of test/minimal/detector.py has two markers and a
\* fingertip: board false, no touch point.
C26_Witness ==
    /\ sh_class = "A4WebStreamDetector"
    /\ sh_frames = MaxShadowFrames
    /\ ~BoardDetected(sh_frame.positions)
    /\ sh_frame.hands # <<>>
    /\ sh_results.board = FALSE
    /\ PublishedTouches = {}

(***************************************************************************)
(* C27.  is_calibrated, plane_depth and calibration_count of test/app.py.  *)
(***************************************************************************)
\* is_calibrated is true only with plane_depth set and the count at or
\* above the threshold.
CalibratedWithPlane ==
    is_calibrated => (plane_depth # None /\ calibration_count >= AppCalibratedAt)

\* C27: in every reachable state, including every interleaving of
\* reset_calibration with a calibrate call in progress, is_calibrated is
\* true only if plane_depth is set and calibration_count is at or above the
\* threshold (10), so the fingertip distance is never computed against an
\* unset plane depth.
C27_CalibratedImpliesPlane == CalibratedWithPlane

\* C27 for the runs in which reset_calibration has not been called.
C27_CalibratedImpliesPlaneWithoutReset == resets_started = 0 => CalibratedWithPlane

\* The loop alone has calibrated the detector.
C27_Witness ==
    /\ resets_started = 0
    /\ is_calibrated
    /\ plane_depth # None
    /\ calibration_count = AppCalibratedAt

(***************************************************************************)
(* C28.  play_audio on a file that is missing or cannot be loaded.         *)
(***************************************************************************)
\* The call returned False and left last_played and audio_cache unchanged.
RefusedQuietly ==
    /\ returned' = "False"
    /\ last_played' = last_played
    /\ audio_cache' = audio_cache

\* C28: play_audio returns False and raises no exception when the audio
\* file does not exist or cannot be loaded, and in that case leaves
\* last_played and audio_cache unchanged.
C28_FailedPlayReturnsFalse ==
    [][\A p \in AudioPaths \ LoadableFiles, id \in AssignableIds \cup {NoneId} :
          PlayAudio(p, id) => RefusedQuietly]_vars

\* C28 for the files that exist and that pygame cannot load.
C28_UnloadablePlayReturnsFalse ==
    [][\A p \in CorruptFiles, id \in AssignableIds \cup {NoneId} :
          PlayAudio(p, id) => RefusedQuietly]_vars

\* A call returned False with nothing played before it: no cooldown was
\* running, the file could not be loaded.
C28_Witness ==
    /\ returned = "False"
    /\ audio_log = <<>>
    /\ last_played = EmptyDict
    /\ audio_cache = {}

(***************************************************************************)
(* The ROI editor (test/minimal/roi_editor.py).  A ROI is a dict, and the  *)
(* canvas holds references to dicts: rois is a list of objects and         *)
(* selected_roi is an object or None.  Two objects are equal (==) when     *)
(* their fields are; list.remove and the list comparison use equality.     *)
(***************************************************************************)
\* ROI dicts created in one run.
MaxRoiObjects == 3

\* if w > 20 and h > 20
MinRoiSide == 20

notEditor == <<now, audio_log, roiVars, audioVars, detVars, appVars, streamVars, resetVars, lifeVars, storeVars, regionVars, arucoVars, planeVars, fixVars, pixelVars, shadowVars, mapVars>>

\* selected_roi = None
NoObject == 0

\* The dict of mouseReleaseEvent and of a project file.
RoiDict(id, number, x, y, w, h) ==
    [id |-> id, name |-> <<"ROI", number>>, x |-> x, y |-> y, width |-> w, height |-> h, audio_file |-> ""]

\* Where the mouse is pressed and released.
PressPoints == {<<10, 10>>, <<60, 60>>}

ReleasePoints == {<<10, 10>>, <<50, 50>>, <<100, 100>>}

\* The lists of ROIs of the project files: the file saved by an editor with
\* one ROI drawn from (10, 10) to (50, 50), a file with another ROI, and a
\* file without ROIs.
ProjectRois ==
    { <<RoiDict(0, 1, 10, 10, 40, 40)>>,
      <<RoiDict(0, 1, 60, 60, 40, 40)>>,
      <<>> }

\* point_in_roi(point, roi)
PointInRoi(point, roi) ==
    /\ roi.x <= point[1] /\ point[1] <= roi.x + roi.width
    /\ roi.y <= point[2] /\ point[2] <= roi.y + roi.height

\* The first index of the list whose object satisfies the test, or 0.
FirstIndex(rois, Test(_)) ==
    IF \E i \in DOMAIN rois : Test(rois[i])
    THEN CHOOSE i \in DOMAIN rois : Test(rois[i]) /\ \A j \in 1..(i - 1) : ~Test(rois[j])
    ELSE 0

\* The list without its element i.
RemoveAt(rois, i) == [j \in 1..(Len(rois) - 1) |-> IF j < i THEN rois[j] ELSE rois[j + 1]]

\* for i, roi in enumerate(self.rois): roi['id'] = i
Renumber(heap, rois) ==
    [o \in DOMAIN heap |->
        IF \E i \in DOMAIN rois : rois[i] = o
        THEN [heap[o] EXCEPT !.id = (CHOOSE i \in DOMAIN rois : rois[i] = o) - 1]
        ELSE heap[o]]

EditorInit ==
    /\ DepthMapUnused
    /\ ed_heap = <<>>
    /\ ed_rois = <<>>
    /\ ed_selected = NoObject
    /\ ed_start = None
    /\ ed_outcome = "none"
    /\ ed_opened = FALSE
    /\ now = 0
    /\ audio_log = <<>>
    /\ RoiUnused
    /\ AudioUnused
    /\ DetUnused
    /\ AppUnused
    /\ StreamUnused
    /\ ResetUnused
    /\ LifeUnused
    /\ StoreUnused
    /\ RegionUnused
    /\ ArucoUnused
    /\ PlaneUnused
    /\ FixUnused
    /\ PixelUnused
    /\ ShadowUnused

\* ROICanvas.mousePressEvent with the left button at the point.
MousePressEvent(point) ==
    /\ ed_start' = point
    /\ \E i \in {FirstIndex(ed_rois, LAMBDA o : PointInRoi(point, ed_heap[o]))} :
         ed_selected' = IF i = 0 THEN NoObject ELSE ed_rois[i]
    /\ UNCHANGED <<ed_heap, ed_rois, ed_outcome, ed_opened, notEditor>>

\* ROICanvas.mouseReleaseEvent at the point.
MouseReleaseEvent(end_pos) ==
    /\ ed_start # None
    /\ IF Abs(end_pos[1] - ed_start[1]) > MinRoiSide /\ Abs(end_pos[2] - ed_start[2]) > MinRoiSide
       THEN /\ Len(ed_heap) < MaxRoiObjects
            /\ ed_heap' = Append(ed_heap,
                                 RoiDict(Len(ed_rois), Len(ed_rois) + 1,
                                         Min2(ed_start[1], end_pos[1]), Min2(ed_start[2], end_pos[2]),
                                         Abs(end_pos[1] - ed_start[1]), Abs(end_pos[2] - ed_start[2])))
            /\ ed_rois' = Append(ed_rois, Len(ed_heap) + 1)
       ELSE UNCHANGED <<ed_heap, ed_rois>>
    /\ ed_start' = None
    /\ UNCHANGED <<ed_selected, ed_outcome, ed_opened, notEditor>>

\* ROIEditor.on_roi_list_clicked on the item of the list made for rois[k].
OnRoiListClicked(k) ==
    /\ k \in DOMAIN ed_rois
    /\ \E i \in {FirstIndex(ed_rois, LAMBDA o : ed_heap[o].id = ed_heap[ed_rois[k]].id)} :
         ed_selected' = ed_rois[i]
    /\ UNCHANGED <<ed_heap, ed_rois, ed_start, ed_outcome, ed_opened, notEditor>>

\* delete_selected_roi that sets selected_roi to None and leaves the list.
DeselectOnly ==
    /\ ed_selected' = NoObject
    /\ ed_outcome' = "removed"
    /\ UNCHANGED <<ed_heap, ed_rois>>

\* ROICanvas.delete_selected_roi: list.remove takes out the first element
\* equal to the selected dict and raises ValueError without one.
DeleteSelectedRoi ==
    IF ed_selected = NoObject
    THEN /\ ed_outcome' = "nothing"
         /\ UNCHANGED <<ed_heap, ed_rois, ed_selected>>
    ELSE \E i \in {FirstIndex(ed_rois, LAMBDA o : ed_heap[o] = ed_heap[ed_selected])} :
           IF i = 0
           THEN /\ ed_outcome' = "ValueError"
                /\ UNCHANGED <<ed_heap, ed_rois, ed_selected>>
           ELSE /\ ed_rois' = RemoveAt(ed_rois, i)
                /\ ed_heap' = Renumber(ed_heap, RemoveAt(ed_rois, i))
                /\ ed_selected' = NoObject
                /\ ed_outcome' = "removed"

\* ROIEditor.delete_roi with the answer to its question.
DeleteRoiButton(reply) ==
    /\ ed_selected # NoObject
    /\ IF reply = "Yes"
       THEN DeleteSelectedRoi
       ELSE UNCHANGED <<ed_heap, ed_rois, ed_selected, ed_outcome>>
    /\ UNCHANGED <<ed_start, ed_opened, notEditor>>

\* ROIEditor.clear_all_rois with the answer to its question.
ClearAllRois(reply) ==
    /\ ed_rois # <<>>
    /\ IF reply = "Yes"
       THEN ed_rois' = <<>> /\ ed_selected' = NoObject
       ELSE UNCHANGED <<ed_rois, ed_selected>>
    /\ UNCHANGED <<ed_heap, ed_start, ed_outcome, ed_opened, notEditor>>

\* ROIEditor.new_project with the answer to its question (asked with ROIs
\* on the canvas).
NewProject(reply) ==
    /\ IF ed_rois = <<>> \/ reply = "Yes"
       THEN ed_rois' = <<>> /\ ed_selected' = NoObject
       ELSE UNCHANGED <<ed_rois, ed_selected>>
    /\ UNCHANGED <<ed_heap, ed_start, ed_outcome, ed_opened, notEditor>>

\* ROIEditor.open_project on the file chosen: load_project_from_file and
\* ROICanvas.load_rois.  json.load makes new dicts.
OpenProject(rois) ==
    /\ Len(ed_heap) + Len(rois) <= MaxRoiObjects
    /\ ed_heap' = ed_heap \o rois
    /\ ed_rois' = [i \in 1..Len(rois) |-> Len(ed_heap) + i]
    /\ ed_opened' = TRUE
    /\ UNCHANGED <<ed_selected, ed_start, ed_outcome, notEditor>>

EditorNext ==
    \/ \E point \in PressPoints : MousePressEvent(point)
    \/ \E end_pos \in ReleasePoints : MouseReleaseEvent(end_pos)
    \/ \E k \in 1..MaxRoiObjects : OnRoiListClicked(k)
    \/ \E reply \in {"Yes", "No"} : DeleteRoiButton(reply)
    \/ \E reply \in {"Yes", "No"} : ClearAllRois(reply)
    \/ \E reply \in {"Yes", "No"} : NewProject(reply)
    \/ \E rois \in ProjectRois : OpenProject(rois)

SpecEditor == EditorInit /\ [][EditorNext]_vars

(***************************************************************************)
(* C29.  selected_roi and the list of ROIs.                                *)
(***************************************************************************)
\* selected_roi is None or an element of rois.
SelectedInRois == ed_selected = NoObject \/ \E i \in DOMAIN ed_rois : ed_rois[i] = ed_selected

\* A delete_selected_roi with a selection removes the selected object, and
\* only it, from the list.
RemovesSelected ==
    (ed_selected # NoObject /\ DeleteRoiButton("Yes")) =>
        /\ ed_outcome' = "removed"
        /\ \E i \in DOMAIN ed_rois : ed_rois[i] = ed_selected /\ ed_rois' = RemoveAt(ed_rois, i)

\* C29: after any sequence of ROI creation, selection, deletion, clear-all,
\* new-project and open-project actions, the canvas's selected_roi is either
\* None or an element of the current rois list, so delete_selected_roi
\* always removes exactly the selected ROI.
C29_SelectedIsListed == []SelectedInRois /\ [][RemovesSelected]_vars

\* C29 for the sequences without open-project.
C29_SelectedIsListedWithoutOpen ==
    [](ed_opened = FALSE => SelectedInRois) /\ [][ed_opened' = FALSE => RemovesSelected]_vars

\* The selected one of two drawn ROIs was deleted.
C29_Witness ==
    /\ ed_opened = FALSE
    /\ ed_outcome = "removed"
    /\ Len(ed_rois) = 1
    /\ Len(ed_heap) = 2
    /\ ed_selected = NoObject

(***************************************************************************)
(* DepthCalibrationDetector (test/app.py): the depth pixel read for a      *)
(* marker in calibrate_simple_plane and for a fingertip in detect_hands.   *)
(* A shape is (height, width); a pixel is (x, y).                          *)
(***************************************************************************)
\* The largest height and width of a frame.
MaxSide == 4

notDepthMap == <<now, audio_log, roiVars, audioVars, detVars, appVars, streamVars, resetVars, lifeVars, storeVars, regionVars, arucoVars, planeVars, fixVars, pixelVars, shadowVars, editorVars>>

\* The shapes of the frames.
Shapes == (2..MaxSide) \X (2..MaxSide)

\* The pixels of a frame of the shape.
PixelsOf(shape) == (0..(shape[2] - 1)) \X (0..(shape[1] - 1))

\* map_rgb_to_depth dividing by the largest coordinate of the colour frame.
MapRgbToDepthByLast(rgb_x, rgb_y, rgb_shape, depth_shape) ==
    <<(rgb_x * depth_shape[2]) \div (rgb_shape[2] - 1), (rgb_y * depth_shape[1]) \div (rgb_shape[1] - 1)>>

\* map_rgb_to_depth(rgb_x, rgb_y, rgb_shape, depth_shape): depth_h, depth_w
\* are the first and the second element of depth_shape.  int() of the
\* quotient of two naturals is the integer quotient.
MapRgbToDepth(rgb_x, rgb_y, rgb_shape, depth_shape) ==
    <<(rgb_x * depth_shape[2]) \div rgb_shape[2], (rgb_y * depth_shape[1]) \div rgb_shape[1]>>

\* get_depth_at_point: 0 <= depth_x < w and 0 <= depth_y < h, with
\* h, w = depth_image.shape
InDepthImage(shape, depth_px) ==
    /\ 0 <= depth_px[1] /\ depth_px[1] < shape[2]
    /\ 0 <= depth_px[2] /\ depth_px[2] < shape[1]

\* calibrate_simple_plane, line 75: the depth pixel of a marker.
MarkerLookup(rgb_pos, rgb_shape, shape) == MapRgbToDepth(rgb_pos[1], rgb_pos[2], rgb_shape, shape)

\* detect_hands, line 143: the depth pixel of a fingertip, with
\* (depth_image.shape[1], depth_image.shape[0]) as depth_shape.
FingerLookup(rgb_pos, rgb_shape, shape) ==
    MapRgbToDepth(rgb_pos[1], rgb_pos[2], rgb_shape, <<shape[2], shape[1]>>)

DepthMapInit ==
    /\ dm_rgb_shape \in Shapes
    /\ dm_depth_shape \in Shapes
    /\ dm_marker = None
    /\ dm_finger = None
    /\ now = 0
    /\ audio_log = <<>>
    /\ RoiUnused
    /\ AudioUnused
    /\ DetUnused
    /\ AppUnused
    /\ StreamUnused
    /\ ResetUnused
    /\ LifeUnused
    /\ StoreUnused
    /\ RegionUnused
    /\ ArucoUnused
    /\ PlaneUnused
    /\ FixUnused
    /\ PixelUnused
    /\ ShadowUnused
    /\ EditorUnused

\* A frame of the calibrated detector with a marker and a fingertip: the
\* depth pixels read at lines 75-76 and at lines 143-144.
LookupFrame(marker_px, finger_px) ==
    /\ dm_marker' = <<marker_px, MarkerLookup(marker_px, dm_rgb_shape, dm_depth_shape)>>
    /\ dm_finger' = <<finger_px, FingerLookup(finger_px, dm_rgb_shape, dm_depth_shape)>>
    /\ UNCHANGED <<dm_rgb_shape, dm_depth_shape, notDepthMap>>

DepthMapNext == \E marker_px, finger_px \in PixelsOf(dm_rgb_shape) : LookupFrame(marker_px, finger_px)

SpecDepthMap == DepthMapInit /\ [][DepthMapNext]_vars

(***************************************************************************)
(* C30.  The depth pixel of a fingertip and of a marker.                   *)
(***************************************************************************)
\* A frame has been processed.
Looked == dm_marker # None

\* The marker's depth pixel is inside the depth frame.
MarkerInside == InDepthImage(dm_depth_shape, dm_marker[2])

\* The fingertip's depth pixel is inside the depth frame.
FingerInside == InDepthImage(dm_depth_shape, dm_finger[2])

\* A fingertip at the marker's colour pixel has the marker's depth pixel.
SamePixelSameDepth == dm_finger[1] = dm_marker[1] => dm_finger[2] = dm_marker[2]

\* C30: map_rgb_to_depth maps every pixel inside the colour frame to a pixel
\* inside the depth frame, and the fingertip depth lookup uses the same
\* (height, width) shape convention as the marker depth lookup used for
\* calibration, so a fingertip at a marker's colour pixel samples the same
\* depth pixel as calibration did for that marker, for every pair of colour
\* and depth resolutions.
C30_SameDepthPixel == Looked => (MarkerInside /\ FingerInside /\ SamePixelSameDepth)

\* C30 for the marker lookup at every pair of resolutions, and for the
\* fingertip lookup at the depth frames as high as wide.
C30_SameDepthPixelInSquareFrames ==
    Looked => /\ MarkerInside
              /\ dm_depth_shape[1] = dm_depth_shape[2] => (FingerInside /\ SamePixelSameDepth)

\* A marker and a fingertip at the last pixel of a colour frame wider than
\* high were read at one pixel of a square depth frame.
C30_Witness ==
    /\ Looked
    /\ dm_rgb_shape = <<2, MaxSide>>
    /\ dm_depth_shape = <<3, 3>>
    /\ dm_marker[1] = <<MaxSide - 1, 1>>
    /\ dm_finger = dm_marker

====
